---------------------------- MODULE Spec2Model ----------------------------
(***************************************************************************)
(* Orbital-visualisation simulators of the repository:                     *)
(*   src/chandragayidea.py  (clock, zoom, pan, planets and moons)          *)
(*   src/solar_system.py    (speed_multiplier, incremental angles)          *)
(*   src/universe.py        (speed_multiplier, incremental angles)          *)
(*                                                                         *)
(* Numbers.  The programs compute with Python floats.  Here a float is an  *)
(* exact rational <<n, d>> (d > 0, lowest terms): sums, products and       *)
(* quotients are exact, so IEEE rounding error is abstracted, while the    *)
(* range effects of the arithmetic are kept: x / 0.0 raises                *)
(* ZeroDivisionError and math.sqrt of a negative raises ValueError.        *)
(* math.sin / math.cos are the rational function of Bhaskara I (maximum    *)
(* error 0.0017, exact at multiples of 30 and 90 degrees) chopped to three *)
(* decimals; math.sqrt is exact on the squares of rationals, which is what *)
(* the model's body tables use (eccentricities 0, 3/5, 1, 5/4).           *)
(*                                                                         *)
(* Display-only state (turtle shapes, canvas items, rings, rotation_angle) *)
(* is not modelled.                                                        *)
(***************************************************************************)
EXTENDS Integers, Sequences, FiniteSets, TLC

(***************************************************************************)
(* Bounds of the model (not program constants).                            *)
(***************************************************************************)
\* real seconds that may elapse between two readings of time.time()
MaxDt == 1
\* main_loop's frames are explored until last_time reaches this many seconds
MaxRealTime == 2
\* net number of speed_up (or slow_down) events away from the initial speed
MaxSpeedSteps == 1
\* net number of zoom_in (or zoom_out) events away from the default zoom
MaxZoomSteps == 1
\* arrow-key pans away from the default view
MaxPanSteps == 1
\* net number of speed events explored when only the speed keys are pressed
MaxSpeedRange == 3
\* view keys pressed when only the view keys are pressed
MaxKeys == 4

\* speed-up presses, and slow-down presses, followed in binary64
MaxPresses == 5

\* iterations of main_loop of src/universe.py
MaxUniverseFrames == 3

\* twelfths of a period before time 0 and after one whole period
MaxTwelfths == 3

\* frames whose trails are followed
MaxTrailFrames == 125

\* presses of the "t" key
MaxTrailToggles == 2

(***************************************************************************)
(* Exact rational arithmetic standing for Python float arithmetic.         *)
(***************************************************************************)
Abs(n) == IF n < 0 THEN -n ELSE n

RECURSIVE GCD(_, _)
GCD(a, b) == IF b = 0 THEN a ELSE GCD(b, a % b)

\* n/d in lowest terms with a positive denominator (d # 0)
Norm(n, d) ==
    LET s == IF d < 0 THEN -1 ELSE 1
        g == GCD(Abs(n), Abs(d))
    IN  << (s * n) \div g, (s * d) \div g >>

R(n) == << n, 1 >>

\* least common denominator
LCM(a, b) == (a \div GCD(a, b)) * b

RAdd(a, b) ==
    LET l == LCM(a[2], b[2])
    IN  Norm(a[1] * (l \div a[2]) + b[1] * (l \div b[2]), l)

RSub(a, b) ==
    LET l == LCM(a[2], b[2])
    IN  Norm(a[1] * (l \div a[2]) - b[1] * (l \div b[2]), l)

RMul(a, b) ==
    LET g == GCD(Abs(a[1]), b[2])
        h == GCD(Abs(b[1]), a[2])
    IN  Norm((a[1] \div g) * (b[1] \div h), (a[2] \div h) * (b[2] \div g))

\* a / b for b # 0 (the callers raise ZeroDivisionError before dividing by 0)
RDiv(a, b) ==
    IF b[1] < 0 THEN RMul(a, << -b[2], -b[1] >>) ELSE RMul(a, << b[2], b[1] >>)

RNeg(a) == << -a[1], a[2] >>

RLess(a, b) == a[1] * b[2] < b[1] * a[2]

RLeq(a, b) == a[1] * b[2] <= b[1] * a[2]

RAbs(a) == << Abs(a[1]), a[2] >>

RPos(a) == a[1] > 0

RECURSIVE RPow(_, _)
RPow(a, k) == IF k = 0 THEN R(1) ELSE RMul(a, RPow(a, k - 1))

\* x % m for a float x and a positive m: Python's result lies in [0, m)
Floor(q) == q[1] \div q[2]

RMod(a, m) == RSub(a, RMul(R(Floor(RDiv(a, m))), m))

\* math.sqrt(a) for a >= 0: exact when a is the square of a rational
ISqrt(n) == CHOOSE r \in 0..n : r * r <= n /\ n < (r + 1) * (r + 1)

Square(q) == RMul(q, q)

RSqrt(a) == Norm(ISqrt(a[1]), ISqrt(a[2]))

\* decimals kept of a sine or cosine: 1/TRIG_GRID
TRIG_GRID == 1000

\* a in [0, 1] chopped to a multiple of 1/TRIG_GRID
Chop(a) ==
    LET q1 == (a[1] * 100) \div a[2]
        r1 == (a[1] * 100) % a[2]
        q2 == (r1 * (TRIG_GRID \div 100)) \div a[2]
    IN  Norm(q1 * (TRIG_GRID \div 100) + q2, TRIG_GRID)

\* sin of t degrees for 0 <= t <= 180 (Bhaskara I)
BhaskaraRatio(p) == Chop(RDiv(RMul(R(4), p), RSub(R(40500), p)))

Bhaskara(t) == BhaskaraRatio(RMul(t, RSub(R(180), t)))

\* math.sin(math.radians(deg))
SinTurn(t) ==
    IF RLeq(t, R(180)) THEN Bhaskara(t) ELSE RNeg(Bhaskara(RSub(t, R(180))))

SinDeg(deg) == SinTurn(RMod(deg, R(360)))

\* math.cos(math.radians(deg))
CosDeg(deg) == SinDeg(RAdd(deg, R(90)))

(***************************************************************************)
(* IEEE 754 binary64 multiplication and division, for the values whose     *)
(* rounding matters (the speed factors).  A natural number is the          *)
(* sequence of its base-LIMB digits, lowest first, without leading zeros;  *)
(* a positive double is << m, e >>, of value m * 2^e, with                 *)
(* 2^52 <= m < 2^53.  Rounding is to nearest, ties to even.  Overflow and  *)
(* subnormals are out of the range the model explores.                     *)
(***************************************************************************)
LIMB == 16384

LIMB_BITS == 14

RECURSIVE Pow2(_)
Pow2(k) == IF k = 0 THEN 1 ELSE 2 * Pow2(k - 1)

RECURSIVE BFromNat(_)
BFromNat(n) == IF n = 0 THEN << >> ELSE << n % LIMB >> \o BFromNat(n \div LIMB)

RECURSIVE BTrim(_)
BTrim(a) ==
    IF a = << >> \/ a[Len(a)] # 0 THEN a ELSE BTrim(SubSeq(a, 1, Len(a) - 1))

Digit(a, i) == IF i <= Len(a) THEN a[i] ELSE 0

\* a + b + c from digit i on
RECURSIVE BAddFrom(_, _, _, _)
BAddFrom(a, b, i, c) ==
    IF i > Len(a) /\ i > Len(b)
    THEN IF c = 0 THEN << >> ELSE << c >>
    ELSE << (Digit(a, i) + Digit(b, i) + c) % LIMB >>
         \o BAddFrom(a, b, i + 1, (Digit(a, i) + Digit(b, i) + c) \div LIMB)

BAdd(a, b) == BAddFrom(a, b, 1, 0)

\* a - b - c from digit i on, for a >= b
RECURSIVE BSubFrom(_, _, _, _)
BSubFrom(a, b, i, c) ==
    IF i > Len(a) THEN << >>
    ELSE << (Digit(a, i) - Digit(b, i) - c + LIMB) % LIMB >>
         \o BSubFrom(a, b, i + 1, IF Digit(a, i) - Digit(b, i) - c < 0 THEN 1 ELSE 0)

BSub(a, b) == BTrim(BSubFrom(a, b, 1, 0))

\* a < b, decided from digit i down (the digits above i are equal)
RECURSIVE BLessFrom(_, _, _)
BLessFrom(a, b, i) ==
    IF i = 0 THEN FALSE
    ELSE IF a[i] # b[i] THEN a[i] < b[i]
    ELSE BLessFrom(a, b, i - 1)

BLess(a, b) ==
    IF Len(a) # Len(b) THEN Len(a) < Len(b) ELSE BLessFrom(a, b, Len(a))

BLeq(a, b) == ~BLess(b, a)

\* a * k + c from digit i on, for 0 <= k < LIMB
RECURSIVE BMulSmallFrom(_, _, _, _)
BMulSmallFrom(a, k, i, c) ==
    IF i > Len(a) THEN IF c = 0 THEN << >> ELSE << c >>
    ELSE << (a[i] * k + c) % LIMB >>
         \o BMulSmallFrom(a, k, i + 1, (a[i] * k + c) \div LIMB)

BMulSmall(a, k) == BTrim(BMulSmallFrom(a, k, 1, 0))

Zeros(n) == [i \in 1..n |-> 0]

\* a * 2^k
BShl(a, k) ==
    IF a = << >> THEN a
    ELSE Zeros(k \div LIMB_BITS) \o BMulSmall(a, Pow2(k % LIMB_BITS))

\* a * b, the digits of b from i on
RECURSIVE BMulFrom(_, _, _)
BMulFrom(a, b, i) ==
    IF i > Len(b) \/ a = << >> THEN << >>
    ELSE BAdd(BMulSmall(a, b[i]), BTrim(<< 0 >> \o BMulFrom(a, b, i + 1)))

BMul(a, b) == BMulFrom(a, b, 1)

RECURSIVE BitLen(_)
BitLen(n) == IF n = 0 THEN 0 ELSE 1 + BitLen(n \div 2)

\* the number of bits of a
BBits(a) ==
    IF a = << >> THEN 0 ELSE LIMB_BITS * (Len(a) - 1) + BitLen(a[Len(a)])

AddBit(b, qr) == << qr[1] + b, qr[2] >>

\* << digit, remainder >>: bits j .. 0 of digit number i / LIMB_BITS of
\* floor(r / d), by restoring division
RECURSIVE BDivDigit(_, _, _, _)
BDivDigit(r, d, i, j) ==
    IF j < 0 THEN << 0, r >>
    ELSE IF BLeq(BShl(d, i + j), r)
         THEN AddBit(Pow2(j), BDivDigit(BSub(r, BShl(d, i + j)), d, i, j - 1))
         ELSE BDivDigit(r, d, i, j - 1)

PutRest(digit, rest) == << rest[1] \o << digit >>, rest[2] >>

\* << digits k .. 0 of floor(r / d), r mod d >> for r < d * LIMB^(k+1)
RECURSIVE BDivLimbs(_, _, _)
PutDigit(dr, d, k) == PutRest(dr[1], BDivLimbs(dr[2], d, k - 1))

BDivLimbs(r, d, k) ==
    IF k < 0 THEN << << >>, r >>
    ELSE PutDigit(BDivDigit(r, d, LIMB_BITS * k, LIMB_BITS - 1), d, k)

TrimQuotient(qr) == << BTrim(qr[1]), qr[2] >>

\* << floor(n / d), n mod d >> for n / d < 2^56
BDivMod(n, d) == TrimQuotient(BDivLimbs(n, d, 3))

\* n / d rounded to the nearest integer, ties to even, from << quotient,
\* remainder >>
RoundHalfEven(qr, d) ==
    IF \/ BLess(d, BShl(qr[2], 1))
       \/ BShl(qr[2], 1) = d /\ qr[1] # << >> /\ qr[1][1] % 2 = 1
    THEN BAdd(qr[1], << 1 >>)
    ELSE qr[1]

\* the double << m, e >> of a rounded mantissa of 53 or (after a carry) 54 bits
FNormal(m, e) ==
    IF BBits(m) = 54 THEN << BShl(<< 1 >>, 52), e + 1 >> ELSE << m, e >>

\* n / d * 2^e rounded, for n / d in [2^52, 2^53)
FRoundScaled(n, d, e) == FNormal(RoundHalfEven(BDivMod(n, d), d), e)

\* n / d * 2^e rounded, for n / d in [2^52, 2^54)
FRoundIn(n, d, e) ==
    IF BLeq(BShl(d, 53), n) THEN FRoundScaled(n, BShl(d, 1), e + 1)
    ELSE FRoundScaled(n, d, e)

\* n / d * 2^e rounded, where n * 2^s / d is in [2^52, 2^54)
FRoundBy(n, d, e, s) ==
    IF s >= 0 THEN FRoundIn(BShl(n, s), d, e - s)
    ELSE FRoundIn(n, BShl(d, -s), e - s)

\* the double nearest to n / d * 2^e, for n, d > 0
FRound(n, d, e) == FRoundBy(n, d, e, 53 - (BBits(n) - BBits(d)))

\* x * y and x / y in binary64
FMul(x, y) == FRound(BMul(x[1], y[1]), << 1 >>, x[2] + y[2])

FDiv(x, y) == FRound(x[1], y[1], x[2] - y[2])

\* the double a decimal literal of value n / d denotes
Float(n, d) == FRound(BFromNat(n), BFromNat(d), 0)

(***************************************************************************)
(* src/chandragayidea.py: configuration and body tables.                   *)
(***************************************************************************)
AU_TO_PIXELS == 200

\* TIME_SCALE = 120.0 simulation days per real second
TIME_SCALE_INIT == 120

\* speed_up multiplies and slow_down divides TIME_SCALE by 1.8
SPEED_FACTOR == << 9, 5 >>

\* zoom_in multiplies and zoom_out divides GLOBAL_SCALE by 1.2
ZOOM_FACTOR == << 6, 5 >>

\* the arrow keys pan by 40 pixels
PAN_STEP == 40

\* DEFAULT_VIEW = (0, 0, 1.0): offset_x, offset_y, GLOBAL_SCALE
DEFAULT_VIEW == << R(0), R(0), R(1) >>

\* One row of PLANET_RAW: name, a (AU), e, inc (deg), period (days), and the
\* value radius_km_to_pixels gives for its radius_km.  The model's tables
\* are small stand-ins for the nine rows of the program.
PlanetRow(name, a, e, inc, period, radius_px) ==
    [name |-> name, a |-> a, e |-> e, inc |-> inc, period |-> period,
     radius_px |-> radius_px]

EarthRow == PlanetRow("Earth", R(1), R(0), R(0), R(480), R(26))

MarsRow == PlanetRow("Mars", << 3, 2 >>, << 3, 5 >>, R(60), R(240), R(24))

PLANET_RAW == << EarthRow, MarsRow >>

\* Tables a validating loader would reject: the second row with e = 1,
\* e > 1, period = 0, period < 0, a = 0.
InvalidTables ==
    { << EarthRow, [MarsRow EXCEPT !.e = R(1)] >>,
      << EarthRow, [MarsRow EXCEPT !.e = << 5, 4 >>] >>,
      << EarthRow, [MarsRow EXCEPT !.period = R(0)] >>,
      << EarthRow, [MarsRow EXCEPT !.period = R(-240)] >>,
      << EarthRow, [MarsRow EXCEPT !.a = R(0)] >> }

\* One row of MOONS_RAW: parent_name, name, dist (thousand km), period,
\* eccentricity, inclination.
MoonRow(parent, name, dist, period, ecc, inc) ==
    [parent |-> parent, name |-> name, dist |-> dist, period |-> period,
     ecc |-> ecc, inc |-> inc]

MOONS_RAW ==
    << MoonRow("Earth", "Moon", R(400), R(120), << 3, 5 >>, R(60)),
       MoonRow("Vulcan", "Ghost", R(400), R(120), R(0), R(0)) >>

\* random.uniform(0, 360) of Planet.__init__ and Moon.__init__: the draws
\* explored
AngleSet == { R(0), R(30), R(90) }

\* the draw of the simulator's planets
StartAngle == R(30)

BodyNames == { "Earth", "Mars", "Moon", "Ghost" }

\* whatever keeps a trail: the bodies, and the comet of src/solar_system.py
TrailNames == BodyNames \cup { "comet" }

(***************************************************************************)
(* src/chandragayidea.py: classes Planet and Moon.                         *)
(***************************************************************************)
\* Moon.__init__
Moon(parent_planet, row, angle) ==
    [parent |-> parent_planet, name |-> row.name,
     dist_thousand_km |-> row.dist, orbital_period |-> row.period,
     ecc |-> row.ecc, incl |-> row.inc, angle |-> angle]

\* Planet.__init__ (moons = []), followed by the "Attach moons" loop for
\* this planet: a moon is built and appended when its parent_name is the
\* planet's name
RECURSIVE AttachMoons(_, _, _, _)
\* an attachment that appends every moon to every planet, whatever its
\* parent_name
AttachMoonsToEveryPlanet(name, raw, i, angle) ==
    [j \in 1..Len(raw) |-> Moon(raw[j].parent, raw[j], angle)]

AttachMoons(name, raw, i, angle) ==
    IF i > Len(raw) THEN << >>
    ELSE IF raw[i].parent = name
         THEN << Moon(name, raw[i], angle) >> \o AttachMoons(name, raw, i + 1, angle)
         ELSE AttachMoons(name, raw, i + 1, angle)

Planet(row, angle, raw, moon_angle) ==
    [name |-> row.name, a |-> row.a, e |-> row.e, inc |-> row.inc,
     inclination |-> row.inc, period_days |-> row.period,
     radius_px |-> row.radius_px, angle_deg |-> angle,
     moons |-> AttachMoons(row.name, raw, 1, moon_angle)]

\* au_to_px: au * AU_TO_PIXELS * GLOBAL_SCALE
au_to_px(au, scale) == RMul(RMul(au, R(AU_TO_PIXELS)), scale)

\* moon_dist_to_pixels: parent_radius_px * 2.5 + dist_thousand_km * 0.02
moon_dist_to_pixels(dist, parent_radius_px) ==
    RAdd(RMul(parent_radius_px, << 5, 2 >>), RMul(dist, << 1, 50 >>))

\* a body that turns once in 365 days whatever its period
OrbitAngleOfAYear(sim, period, angle) ==
    RAdd(RMul(RMod(RDiv(sim, R(365)), R(1)), R(360)), angle)

\* a body that turns clockwise
OrbitAngleClockwise(sim, period, angle) ==
    RAdd(RMul(RSub(R(1), RMod(RDiv(sim, period), R(1))), R(360)), angle)

\* frac * 360.0 + angle, with frac = (sim_days / period) % 1.0
OrbitAngle(sim, period, angle) ==
    RAdd(RMul(RMod(RDiv(sim, period), R(1)), R(360)), angle)

Raise(e) == [err |-> e, x |-> R(0), y |-> R(0)]

\* a position whose tilt multiplies y by the sine of the inclination
compute_orbital_position_tilt_by_sine(p, sim, scale) ==
    IF p.period_days[1] = 0 THEN Raise("ZeroDivisionError")
    ELSE
      LET theta == OrbitAngle(sim, p.period_days, p.angle_deg)
          a_px == au_to_px(p.a, scale)
          under == RSub(R(1), RMul(p.e, p.e))
      IN  IF under[1] < 0 THEN Raise("ValueError")
          ELSE
            LET b_px == RMul(a_px, RSqrt(under))
            IN  [err |-> "none",
                 x |-> RMul(a_px, CosDeg(theta)),
                 y |-> RMul(RMul(b_px, SinDeg(theta)), SinDeg(p.inclination))]

\* Planet.compute_orbital_position: the position, or the exception raised
compute_orbital_position(p, sim, scale) ==
    IF p.period_days[1] = 0 THEN Raise("ZeroDivisionError")
    ELSE
      LET theta == OrbitAngle(sim, p.period_days, p.angle_deg)
          a_px == au_to_px(p.a, scale)
          under == RSub(R(1), RMul(p.e, p.e))
      IN  IF under[1] < 0 THEN Raise("ValueError")
          ELSE
            LET b_px == RMul(a_px, RSqrt(under))
            IN  [err |-> "none",
                 x |-> RMul(a_px, CosDeg(theta)),
                 y |-> RMul(RMul(b_px, SinDeg(theta)), CosDeg(p.inclination))]

\* a moon whose inclination foreshortens the parent's y as well
MoonDrawInclinedSum(m, parent_radius_px, sim, parent_x, parent_y) ==
    IF m.orbital_period[1] = 0 THEN Raise("ZeroDivisionError")
    ELSE
      LET theta == OrbitAngle(sim, m.orbital_period, m.angle)
          r_px == moon_dist_to_pixels(m.dist_thousand_km, parent_radius_px)
      IN  [err |-> "none",
           x |-> RAdd(parent_x, RMul(r_px, CosDeg(theta))),
           y |-> RMul(RAdd(parent_y, RMul(r_px, SinDeg(theta))),
                      CosDeg(m.incl))]

\* Moon.draw: the moon's world position around (parent_x, parent_y)
Moon_draw(m, parent_radius_px, sim, parent_x, parent_y) ==
    IF m.orbital_period[1] = 0 THEN Raise("ZeroDivisionError")
    ELSE
      LET theta == OrbitAngle(sim, m.orbital_period, m.angle)
          r_px == moon_dist_to_pixels(m.dist_thousand_km, parent_radius_px)
      IN  [err |-> "none",
           x |-> RAdd(parent_x, RMul(r_px, CosDeg(theta))),
           y |-> RAdd(parent_y,
                      RMul(RMul(r_px, SinDeg(theta)), CosDeg(m.incl)))]

\* a view whose pan is added after the zoom
WorldToScreenPanAfterZoom(x, y, off_x, off_y, scale) ==
    << RAdd(RMul(x, scale), off_x), RAdd(RMul(y, scale), off_y) >>

\* CelestialBody.world_to_screen
world_to_screen(x, y, off_x, off_y, scale) ==
    << RMul(RAdd(x, off_x), scale), RMul(RAdd(y, off_y), scale) >>

\* draw_orbits: math.sqrt(1 - p.e**2) raises ValueError when some e > 1
draw_orbits_raises(ps) ==
    \E i \in 1..Len(ps) : RLess(R(1), RMul(ps[i].e, ps[i].e))

(***************************************************************************)
(* State.                                                                  *)
(***************************************************************************)
VARIABLES
    pc,             \* "startup" (line 826), "loop" (in main_loop), "crashed"
    error,          \* the exception that ended the program, or "none"
    planets,        \* the list planets, each planet with its list moons
    paused,
    TIME_SCALE,
    sim_days,
    last_time,      \* seconds since the module read time.time() (line 766)
    GLOBAL_SCALE,
    view_offset_x,
    view_offset_y,
    curr,           \* body name -> << curr_x, curr_y >>
    ss_speed,       \* speed_multiplier of src/solar_system.py
    u_speed,        \* speed_multiplier of src/universe.py
    call,           \* a pure function applied to bounded inputs: the inputs
    ret,            \* ... and what it returned
    keys,           \* history: the keys whose handlers have run, in order,
                    \* where a specification records them
    speed64,        \* one simulator's speed global as the binary64 value
                    \* Python holds, with the speed keys pressed so far
    program,        \* the simulator whose trails are followed
    SHOW_TRAILS,
    trail,          \* name -> self.trail of the planet or moon of
                    \* src/chandragayidea.py, or of the comet of
                    \* src/solar_system.py
    drawn,          \* history: name -> every position the body was drawn at
    comet,          \* the comet of src/solar_system.py, or NoComet
    u_running,      \* running of src/universe.py
    SHOW_LABELS_FLAG,
    u_planets,      \* planets of src/universe.py: angle, and whether label
                    \* is an object (TRUE) or None (FALSE)
    u_frames,       \* iterations of main_loop of src/universe.py so far
    ss_planets,     \* planets of src/solar_system.py, each with its moons;
                    \* start is history: the angle drawn at program start
    SHOW_MOONS,
    ss_running,     \* running of src/solar_system.py
    SHOW_ORBITS,    \* src/chandragayidea.py
    SHOW_LABELS_CH  \* SHOW_LABELS of src/chandragayidea.py

vars == << pc, error, planets, paused, TIME_SCALE, sim_days, last_time,
           GLOBAL_SCALE, view_offset_x, view_offset_y, curr, ss_speed,
           u_speed, call, ret, keys, speed64, program, SHOW_TRAILS, trail,
           drawn, comet, u_running, SHOW_LABELS_FLAG, u_planets, u_frames,
           ss_planets, SHOW_MOONS, ss_running, SHOW_ORBITS, SHOW_LABELS_CH >>

\* what the specifications of the clock, the speeds and the position
\* functions leave aside
trailVars == << program, SHOW_TRAILS, trail, drawn, comet >>

universeVars == << u_running, SHOW_LABELS_FLAG, u_planets, u_frames >>

solarVars == << ss_planets, SHOW_MOONS, ss_running >>

flagVars == << SHOW_ORBITS, SHOW_LABELS_CH >>

aside == << keys, speed64, trailVars, universeVars, solarVars, flagVars >>

simVars == << pc, error, planets, paused, TIME_SCALE, sim_days, last_time,
              GLOBAL_SCALE, view_offset_x, view_offset_y, curr >>

NoCall == [fn |-> "none"]

NoRet == [err |-> "pending"]

\* module level of src/chandragayidea.py up to line 825: the globals, and
\* the planets and moons built from the tables (curr_x = curr_y = 0.0)
InitSim(rows, angle, moon_angle) ==
    /\ pc = "startup"
    /\ error = "none"
    /\ planets = [i \in 1..Len(rows) |-> Planet(rows[i], angle, MOONS_RAW, moon_angle)]
    /\ paused = FALSE
    /\ TIME_SCALE = R(TIME_SCALE_INIT)
    /\ sim_days = R(0)
    /\ last_time = 0
    /\ GLOBAL_SCALE = R(1)
    /\ view_offset_x = R(0)
    /\ view_offset_y = R(0)
    /\ curr = [n \in BodyNames |-> << R(0), R(0) >>]

\* the speed global of each simulator at module level: TIME_SCALE = 120.0,
\* speed_multiplier = 1.0
SpeedStart ==
    [ chandragayidea |-> TIME_SCALE_INIT, solar_system |-> 1,
      universe |-> 1 ]

\* module level of src/solar_system.py and src/universe.py
InitSpeeds ==
    /\ ss_speed = R(1)
    /\ u_speed = R(1)

\* the speed global of a simulator as Python creates it, no key pressed
Speed64Start(simulator) ==
    [program |-> simulator, value |-> Float(SpeedStart[simulator], 1),
     ups |-> 0, downs |-> 0]

NoComet == [alive |-> FALSE]

\* src/universe.py line 26
SHOW_LABELS == TRUE

\* src/universe.py line 24: TIME_STEP = 0.5
TIME_STEP == << 1, 2 >>

\* CelestialBody.__init__ line 273: self.trail = []; SHOW_TRAILS = True
\* (line 132); active_comets = [] (src/solar_system.py line 405)
InitTrail ==
    /\ SHOW_TRAILS = TRUE
    /\ SHOW_ORBITS = TRUE
    /\ SHOW_LABELS_CH = TRUE
    /\ trail = [n \in TrailNames |-> << >>]
    /\ drawn = [n \in TrailNames |-> << >>]
    /\ comet = NoComet

InitRational ==
    /\ InitSim(PLANET_RAW, StartAngle, R(0))
    /\ InitSpeeds
    /\ call = NoCall
    /\ ret = NoRet
    /\ keys = << >>

\* Planet.__init__ of src/universe.py: angle 0.0, no label; base is the
\* planet's entry of base_angular_speeds, in degrees per frame
UPlanet(name, base) == [name |-> name, angle |-> R(0), label |-> FALSE, base |-> base]

\* module level of src/universe.py: Earth turns 360 / (360 / TIME_STEP) =
\* 0.5 degrees per frame, Mercury (88 days) about 0.788
InitUniverse ==
    /\ u_running = TRUE
    /\ SHOW_LABELS_FLAG = SHOW_LABELS
    /\ u_planets = << UPlanet("Mercury", << 197, 250 >>), UPlanet("Earth", << 1, 2 >>) >>
    /\ u_frames = 0

\* Moon.__init__ of src/solar_system.py for Luna, its period taken as 30
\* days: orbit_px = max(parent.radius * 1.6, dist_rel * AU_PIXELS * 30) =
\* 3.6 * 1.6; the turtle is created at (0, 0) and shown
SSMoon(angle) ==
    [name |-> "Luna", angle |-> angle, start |-> angle, x |-> R(0), y |-> R(0),
     visible |-> TRUE, period |-> R(30), orbit_px |-> << 144, 25 >>]

\* Planet.__init__ of src/solar_system.py for Earth (a = 1 AU, taken with
\* eccentricity and inclination 0): omega = 360 / (kepler_period(1) * 60) *
\* (1 + 1 / max(0.1, 1)) = 12
SSPlanet(angle, moon_angle) ==
    [name |-> "Earth", distance_px |-> RMul(R(1), << 63, 5 >>), ecc |-> R(0),
     incl |-> R(0), angle |-> angle, start |-> angle, x |-> R(0), y |-> R(0),
     omega |-> R(12), moons |-> << SSMoon(moon_angle) >>]

\* the draws of random.uniform(0, 360) followed
SolarAngles == { R(0), R(90) }

\* module level of src/solar_system.py, Earth and Luna started at the
\* angles given
InitSolarAt(angle, moon_angle) ==
    /\ ss_planets = << SSPlanet(angle, moon_angle) >>
    /\ SHOW_MOONS = TRUE
    /\ ss_running = TRUE

\* the state of what a specification leaves aside
InitAside ==
    /\ speed64 = Speed64Start("chandragayidea")
    /\ program = "chandragayidea"
    /\ InitTrail
    /\ InitUniverse
    /\ InitSolarAt(R(0), R(0))

Init ==
    /\ InitRational
    /\ InitAside

(***************************************************************************)
(* src/chandragayidea.py: start and main_loop.                             *)
(***************************************************************************)
\* lines 826-830 and main_loop up to its while: recalc_visuals(),
\* draw_orbits(), draw_rings(), then the loop; an exception other than
\* turtle.Terminator ends the program
Startup ==
    /\ pc = "startup"
    /\ IF draw_orbits_raises(planets)
       THEN pc' = "crashed" /\ error' = "ValueError"
       ELSE pc' = "loop" /\ error' = error
    /\ UNCHANGED << planets, paused, TIME_SCALE, sim_days, last_time,
                    GLOBAL_SCALE, view_offset_x, view_offset_y, curr,
                    ss_speed, u_speed, call, ret >>

\* a clock that ignores the pause flag
AdvanceClockWhilePaused(sim, dt_real, scale, is_paused) ==
    RAdd(sim, RMul(R(dt_real), scale))

\* a clock that runs backwards
AdvanceClockBackwards(sim, dt_real, scale, is_paused) ==
    IF ~is_paused THEN RSub(sim, RMul(R(dt_real), scale)) ELSE sim

\* main_loop lines 780-784: sim_days += dt_real * TIME_SCALE unless paused
AdvanceClock(sim, dt_real, scale, is_paused) ==
    IF ~is_paused THEN RAdd(sim, RMul(R(dt_real), scale)) ELSE sim

\* Planet.draw's loop over self.moons, stopped by the first exception
RECURSIVE DrawMoons(_, _, _, _, _, _)
\* ... after moon j returned r
MoonDrawn(ms, j, radius_px, sim, ppos, c, r) ==
    IF r.err # "none" THEN [err |-> r.err, curr |-> c]
    ELSE DrawMoons(ms, j + 1, radius_px, sim, ppos,
                   [c EXCEPT ![ms[j].name] = << r.x, r.y >>])

DrawMoons(ms, j, radius_px, sim, ppos, c) ==
    IF j > Len(ms) THEN [err |-> "none", curr |-> c]
    ELSE MoonDrawn(ms, j, radius_px, sim, ppos, c,
                   Moon_draw(ms[j], radius_px, sim, ppos[1], ppos[2]))

\* Planet.draw after compute_orbital_position returned r: curr_x, curr_y are
\* set, then the moons are drawn around them
PlanetPlaced(p, sim, c, r) ==
    IF r.err # "none" THEN [err |-> r.err, curr |-> c]
    ELSE DrawMoons(p.moons, 1, p.radius_px, sim, << r.x, r.y >>,
                   [c EXCEPT ![p.name] = << r.x, r.y >>])

\* Planet.draw: the planet's position, then its moons around it
Planet_draw(p, sim, scale, c) ==
    PlanetPlaced(p, sim, c, compute_orbital_position(p, sim, scale))

\* main_loop lines 810-812: for p in planets: p.draw(sim_days, dt_sim_days)
RECURSIVE DrawPlanets(_, _, _, _, _)
\* ... after planet i returned r
PlanetDrawn(ps, i, sim, scale, r) ==
    IF r.err # "none" THEN r ELSE DrawPlanets(ps, i + 1, sim, scale, r.curr)

DrawPlanets(ps, i, sim, scale, c) ==
    IF i > Len(ps) THEN [err |-> "none", curr |-> c]
    ELSE PlanetDrawn(ps, i, sim, scale, Planet_draw(ps[i], sim, scale, c))

\* the frame's drawing: draw_orbits() (line 809), then the planets
DrawFrame(ps, sim, scale, c) ==
    IF draw_orbits_raises(ps) THEN [err |-> "ValueError", curr |-> c]
    ELSE DrawPlanets(ps, 1, sim, scale, c)

\* the frame ends with the positions r.curr, or with the exception r.err,
\* which nothing catches
FrameDrawn(r) ==
    /\ curr' = r.curr
    /\ error' = r.err
    /\ pc' = IF r.err = "none" THEN "loop" ELSE "crashed"

\* a frame that also steps every planet's angle_deg, the way Planet.update
\* of src/solar_system.py accumulates its angle
FrameSteppingAngles(dt_real) ==
    /\ pc = "loop"
    /\ last_time' = last_time + dt_real
    /\ sim_days' = AdvanceClock(sim_days, dt_real, TIME_SCALE, paused)
    /\ FrameDrawn(DrawFrame(planets, sim_days', GLOBAL_SCALE, curr))
    /\ planets' = [i \in 1..Len(planets) |->
                     [planets[i] EXCEPT !.angle_deg = RMod(RAdd(@, R(30)), R(360))]]
    /\ UNCHANGED << paused, TIME_SCALE, GLOBAL_SCALE, view_offset_x,
                    view_offset_y, ss_speed, u_speed, call, ret >>

\* a frame that draws the bodies before it advances the clock
FrameDrawingBeforeClock(dt_real) ==
    /\ pc = "loop"
    /\ last_time' = last_time + dt_real
    /\ sim_days' = AdvanceClock(sim_days, dt_real, TIME_SCALE, paused)
    /\ FrameDrawn(DrawFrame(planets, sim_days, GLOBAL_SCALE, curr))
    /\ UNCHANGED << planets, paused, TIME_SCALE, GLOBAL_SCALE, view_offset_x,
                    view_offset_y, ss_speed, u_speed, call, ret >>

\* a frame whose clock, when it runs, is the whole wall time since the
\* start times TIME_SCALE, as if last_time were refreshed by no iteration
FrameCreditingWallTime(dt_real) ==
    /\ pc = "loop"
    /\ last_time' = last_time + dt_real
    /\ sim_days' = IF paused THEN sim_days ELSE RMul(R(last_time'), TIME_SCALE)
    /\ FrameDrawn(DrawFrame(planets, sim_days', GLOBAL_SCALE, curr))
    /\ UNCHANGED << planets, paused, TIME_SCALE, GLOBAL_SCALE, view_offset_x,
                    view_offset_y, ss_speed, u_speed, call, ret >>

\* one iteration of main_loop's while, dt_real seconds after the last one
Frame(dt_real) ==
    /\ pc = "loop"
    /\ last_time' = last_time + dt_real
    /\ sim_days' = AdvanceClock(sim_days, dt_real, TIME_SCALE, paused)
    /\ FrameDrawn(DrawFrame(planets, sim_days', GLOBAL_SCALE, curr))
    /\ UNCHANGED << planets, paused, TIME_SCALE, GLOBAL_SCALE, view_offset_x,
                    view_offset_y, ss_speed, u_speed, call, ret >>

(***************************************************************************)
(* src/chandragayidea.py: interaction handlers (run between frames).       *)
(***************************************************************************)
toggle_pause ==
    /\ pc = "loop"
    /\ paused' = ~paused
    /\ UNCHANGED << pc, error, planets, TIME_SCALE, sim_days, last_time,
                    GLOBAL_SCALE, view_offset_x, view_offset_y, curr,
                    ss_speed, u_speed, call, ret >>

\* x *= factor  and  x /= factor
Faster(x, factor) == RMul(x, factor)

\* a slow-down that subtracts the factor
SlowerBySubtracting(x, factor) == RSub(x, factor)

Slower(x, factor) == RDiv(x, factor)

\* a speed-up that also rescales the days elapsed so far
speed_up_rescaling_clock ==
    /\ pc = "loop"
    /\ TIME_SCALE' = Faster(TIME_SCALE, SPEED_FACTOR)
    /\ sim_days' = RMul(sim_days, SPEED_FACTOR)
    /\ UNCHANGED << pc, error, planets, paused, last_time,
                    GLOBAL_SCALE, view_offset_x, view_offset_y, curr,
                    ss_speed, u_speed, call, ret >>

speed_up ==
    /\ pc = "loop"
    /\ TIME_SCALE' = Faster(TIME_SCALE, SPEED_FACTOR)
    /\ UNCHANGED << pc, error, planets, paused, sim_days, last_time,
                    GLOBAL_SCALE, view_offset_x, view_offset_y, curr,
                    ss_speed, u_speed, call, ret >>

slow_down ==
    /\ pc = "loop"
    /\ TIME_SCALE' = Slower(TIME_SCALE, SPEED_FACTOR)
    /\ UNCHANGED << pc, error, planets, paused, sim_days, last_time,
                    GLOBAL_SCALE, view_offset_x, view_offset_y, curr,
                    ss_speed, u_speed, call, ret >>

zoom_in ==
    /\ pc = "loop"
    /\ GLOBAL_SCALE' = RMul(GLOBAL_SCALE, ZOOM_FACTOR)
    /\ UNCHANGED << pc, error, planets, paused, TIME_SCALE, sim_days,
                    last_time, view_offset_x, view_offset_y, curr,
                    ss_speed, u_speed, call, ret >>

\* a zoom-out that subtracts the factor
zoom_out_by_subtracting ==
    /\ pc = "loop"
    /\ GLOBAL_SCALE' = RSub(GLOBAL_SCALE, ZOOM_FACTOR)
    /\ UNCHANGED << pc, error, planets, paused, TIME_SCALE, sim_days,
                    last_time, view_offset_x, view_offset_y, curr,
                    ss_speed, u_speed, call, ret >>

zoom_out ==
    /\ pc = "loop"
    /\ GLOBAL_SCALE' = RDiv(GLOBAL_SCALE, ZOOM_FACTOR)
    /\ UNCHANGED << pc, error, planets, paused, TIME_SCALE, sim_days,
                    last_time, view_offset_x, view_offset_y, curr,
                    ss_speed, u_speed, call, ret >>

\* a pan by dx, dy world units
pan_world_units(dx, dy) ==
    /\ pc = "loop"
    /\ view_offset_x' = RAdd(view_offset_x, R(dx))
    /\ view_offset_y' = RAdd(view_offset_y, R(dy))
    /\ UNCHANGED << pc, error, planets, paused, TIME_SCALE, sim_days,
                    last_time, GLOBAL_SCALE, curr, ss_speed, u_speed, call,
                    ret >>

pan(dx, dy) ==
    /\ pc = "loop"
    /\ view_offset_x' = RAdd(view_offset_x, RDiv(R(dx), GLOBAL_SCALE))
    /\ view_offset_y' = RAdd(view_offset_y, RDiv(R(dy), GLOBAL_SCALE))
    /\ UNCHANGED << pc, error, planets, paused, TIME_SCALE, sim_days,
                    last_time, GLOBAL_SCALE, curr, ss_speed, u_speed, call,
                    ret >>

\* the "Left", "Right", "Up" and "Down" bindings
ArrowKeys ==
    { << -PAN_STEP, 0 >>, << PAN_STEP, 0 >>, << 0, PAN_STEP >>, << 0, -PAN_STEP >> }

\* a reset that restores the pan and keeps the zoom
reset_view_keeping_zoom ==
    /\ pc = "loop"
    /\ view_offset_x' = DEFAULT_VIEW[1]
    /\ view_offset_y' = DEFAULT_VIEW[2]
    /\ UNCHANGED << pc, error, planets, paused, TIME_SCALE, sim_days,
                    last_time, GLOBAL_SCALE, curr, ss_speed, u_speed, call,
                    ret >>

reset_view ==
    /\ pc = "loop"
    /\ view_offset_x' = DEFAULT_VIEW[1]
    /\ view_offset_y' = DEFAULT_VIEW[2]
    /\ GLOBAL_SCALE' = DEFAULT_VIEW[3]
    /\ UNCHANGED << pc, error, planets, paused, TIME_SCALE, sim_days,
                    last_time, curr, ss_speed, u_speed, call, ret >>

\* the "o" key; draw_orbits() draws nothing the model keeps
toggle_orbits_action ==
    /\ pc = "loop"
    /\ SHOW_ORBITS' = ~SHOW_ORBITS
    /\ UNCHANGED << simVars, ss_speed, u_speed, call, ret, keys, speed64,
                    trailVars, universeVars, solarVars, SHOW_LABELS_CH >>

\* the "l" key
toggle_labels_action ==
    /\ pc = "loop"
    /\ SHOW_LABELS_CH' = ~SHOW_LABELS_CH
    /\ UNCHANGED << simVars, ss_speed, u_speed, call, ret, keys, speed64,
                    trailVars, universeVars, solarVars, SHOW_ORBITS >>

(***************************************************************************)
(* src/chandragayidea.py: the click handler, bound by                      *)
(* screen.onclick(on_click).                                               *)
(***************************************************************************)
\* a conversion that removes the pan before the zoom
ScreenToWorldPanFirst(x, y, off_x, off_y, scale) ==
    << RDiv(RSub(x, off_x), scale), RDiv(RSub(y, off_y), scale) >>

\* on_click lines 694-695: wx = x / GLOBAL_SCALE - view_offset_x, and wy
ScreenToWorld(x, y, off_x, off_y, scale) ==
    << RSub(RDiv(x, scale), off_x), RSub(RDiv(y, scale), off_y) >>

\* math.hypot(dx, dy) <= r, for r >= 0: neither leg is longer than r, and
\* the squares compare
LegsWithin(dx, dy, r) ==
    /\ RLeq(RAbs(dx), r)
    /\ RLeq(RAbs(dy), r)
    /\ RLeq(RAdd(Square(dx), Square(dy)), Square(r))

\* math.hypot(b[1] - wx, b[2] - wy) <= r
HypotWithin(b, wx, wy, r) == LegsWithin(RSub(b[1], wx), RSub(b[2], wy), r)

\* the attributes of a Planet object: those of the model's record, and the
\* ones Planet.__init__ and CelestialBody.__init__ set that the record does
\* not carry
PlanetAttributes(p) ==
    DOMAIN p \cup { "color", "turtle", "trail", "show_label", "label_turtle",
                    "radius_km", "mean_anomaly", "omega", "axial_tilt",
                    "rotation_hours", "curr_x", "curr_y", "rings",
                    "rotation_angle" }

\* the attributes the f-strings of generate_info_text_for_planet read, in
\* the order they are read
PlanetInfoReads ==
    << "name", "a", "e", "incl", "period_days", "radius_km", "axial_tilt" >>

\* generate_info_text_for_planet: reading an attribute the object lacks
\* raises AttributeError
generate_info_text_for_planet(p) ==
    IF \A i \in 1..Len(PlanetInfoReads) : PlanetInfoReads[i] \in PlanetAttributes(p)
    THEN [err |-> "none", text |-> p.name]
    ELSE [err |-> "AttributeError", text |-> ""]

\* generate_info_text_for_moon: every attribute read is set by Moon.__init__
generate_info_text_for_moon(m) == [err |-> "none", text |-> m.name]

\* Moon.radius_px = max(2.5, radius_km_to_pixels(radius_km) * 0.45) of the
\* model's moons (the Moon of the program: 10.07)
MOON_RADIUS_PX == R(10)

\* max(6, m.radius_px * 1.5)
MoonHitRadius ==
    LET r == RMul(MOON_RADIUS_PX, << 3, 2 >>)
    IN  IF RLess(r, R(6)) THEN R(6) ELSE r

\* what a click did: the body it matched first, the info panel drawn, the
\* exception raised
Clicked(kind, name, info) ==
    [err |-> info.err, kind |-> kind, hit |-> name,
     shown |-> IF info.err = "none" THEN name ELSE "nothing"]

\* on_click lines 697-709: the planets in list order, each followed by its
\* moons; the first match shows its info and returns
RECURSIVE ClickPlanets(_, _, _, _, _)
RECURSIVE ClickMoons(_, _, _, _, _, _)
ClickMoons(ps, i, j, wx, wy, c) ==
    IF j > Len(ps[i].moons) THEN ClickPlanets(ps, i + 1, wx, wy, c)
    ELSE IF HypotWithin(c[ps[i].moons[j].name], wx, wy, MoonHitRadius)
         THEN Clicked("moon", ps[i].moons[j].name,
                      generate_info_text_for_moon(ps[i].moons[j]))
         ELSE ClickMoons(ps, i, j + 1, wx, wy, c)

ClickPlanets(ps, i, wx, wy, c) ==
    IF i > Len(ps)
    THEN [err |-> "none", kind |-> "nothing", hit |-> "nothing", shown |-> "nothing"]
    ELSE IF HypotWithin(c[ps[i].name], wx, wy, RMul(ps[i].radius_px, << 3, 2 >>))
         THEN Clicked("planet", ps[i].name, generate_info_text_for_planet(ps[i]))
         ELSE ClickMoons(ps, i, 1, wx, wy, c)

\* the click at screen point (x, y): its world point, then the search.  An
\* exception raised in the handler is reported by Tk and the loop goes on.
on_click(x, y) ==
    /\ pc = "loop"
    /\ LET w == ScreenToWorld(x, y, view_offset_x, view_offset_y, GLOBAL_SCALE)
       IN  ret' = [click |-> [x |-> x, y |-> y, wx |-> w[1], wy |-> w[2]],
                   done |-> ClickPlanets(planets, 1, w[1], w[2], curr)]
    /\ UNCHANGED << simVars, ss_speed, u_speed, call >>

(***************************************************************************)
(* src/solar_system.py and src/universe.py: the speed keys.                *)
(***************************************************************************)
\* solar_system.py: speed_multiplier *= 1.4  and  /= 1.4
SS_SPEED_FACTOR == << 7, 5 >>

\* universe.py: speed_multiplier *= 1.35  and  /= 1.35
U_SPEED_FACTOR == << 27, 20 >>

\* the factor of the speed keys of each simulator
SpeedFactor ==
    [ chandragayidea |-> SPEED_FACTOR, solar_system |-> SS_SPEED_FACTOR,
      universe |-> U_SPEED_FACTOR ]

ss_speed_up ==
    /\ ss_speed' = Faster(ss_speed, SS_SPEED_FACTOR)
    /\ UNCHANGED << simVars, u_speed, call, ret >>

ss_slow_down ==
    /\ ss_speed' = Slower(ss_speed, SS_SPEED_FACTOR)
    /\ UNCHANGED << simVars, u_speed, call, ret >>

u_speed_up ==
    /\ u_speed' = Faster(u_speed, U_SPEED_FACTOR)
    /\ UNCHANGED << simVars, ss_speed, call, ret >>

u_slow_down ==
    /\ u_speed' = Slower(u_speed, U_SPEED_FACTOR)
    /\ UNCHANGED << simVars, ss_speed, call, ret >>

(***************************************************************************)
(* The speed keys of the three simulators on binary64 values: *= and /=    *)
(* round their result to the nearest double, ties to even.                 *)
(***************************************************************************)
Faster64(x, factor) == FMul(x, factor)

\* a slow-down that halves the speed whatever the factor
Slower64ByHalving(x, factor) == FDiv(x, Float(2, 1))

Slower64(x, factor) == FDiv(x, factor)

\* the literal 1.8, 1.4 or 1.35 as the double Python reads
Factor64(simulator) ==
    Float(SpeedFactor[simulator][1], SpeedFactor[simulator][2])

speed_up64 ==
    /\ speed64.ups < MaxPresses
    /\ speed64' = [speed64 EXCEPT
                      !.value = Faster64(@, Factor64(speed64.program)),
                      !.ups = @ + 1]
    /\ UNCHANGED << simVars, ss_speed, u_speed, call, ret, keys, trailVars,
                    universeVars, solarVars,
                    flagVars >>

slow_down64 ==
    /\ speed64.downs < MaxPresses
    /\ speed64' = [speed64 EXCEPT
                      !.value = Slower64(@, Factor64(speed64.program)),
                      !.downs = @ + 1]
    /\ UNCHANGED << simVars, ss_speed, u_speed, call, ret, keys, trailVars,
                    universeVars, solarVars,
                    flagVars >>

InitSpeed64 ==
    /\ InitRational
    /\ speed64 \in { Speed64Start(simulator) : simulator \in DOMAIN SpeedStart }
    /\ program = speed64.program
    /\ InitTrail
    /\ InitUniverse
    /\ InitSolarAt(R(0), R(0))

NextSpeed64 ==
    \/ speed_up64
    \/ slow_down64

SpecSpeed64 == InitSpeed64 /\ [][NextSpeed64]_vars

(***************************************************************************)
(* Trails: Planet.draw and Moon.draw of src/chandragayidea.py, and         *)
(* Comet.update of src/solar_system.py.                                    *)
(***************************************************************************)
MAX_TRAIL_POINTS == 120

COMET_TRAIL_LENGTH == 80

\* a trail that drops its newest point when it is full
TrailAppendDroppingNewest(t, pt, max) ==
    IF Len(t) + 1 > max THEN t ELSE Append(t, pt)

\* self.trail.append(pt); if len(self.trail) > max: self.trail.pop(0)
TrailAppend(t, pt, max) ==
    IF Len(t) + 1 > max THEN Tail(Append(t, pt)) ELSE Append(t, pt)

\* the names of the planets ps and of their moons: what a frame draws
RECURSIVE DrawnNames(_, _)
DrawnNames(ps, i) ==
    IF i > Len(ps) THEN { }
    ELSE { ps[i].name } \cup { ps[i].moons[j].name : j \in 1..Len(ps[i].moons) }
             \cup DrawnNames(ps, i + 1)

\* the trail of a body after a draw at the screen position pt
Trailed(t, pt, show) ==
    IF show THEN TrailAppend(t, pt, MAX_TRAIL_POINTS) ELSE << >>

\* a frame of src/chandragayidea.py with the trails of the bodies it draws;
\* with the tables of Init no draw raises
TrailFrame ==
    /\ program = "chandragayidea"
    /\ Len(drawn["Earth"]) < MaxTrailFrames
    /\ Frame(MaxDt)
    /\ trail' = [n \in TrailNames |->
                   IF n \in DrawnNames(planets, 1) /\ pc' = "loop"
                   THEN Trailed(trail[n],
                                world_to_screen(curr'[n][1], curr'[n][2], view_offset_x,
                                                view_offset_y, GLOBAL_SCALE),
                                SHOW_TRAILS)
                   ELSE trail[n]]
    /\ drawn' = [n \in TrailNames |->
                   IF n \in DrawnNames(planets, 1) /\ pc' = "loop"
                   THEN Append(drawn[n],
                               world_to_screen(curr'[n][1], curr'[n][2], view_offset_x,
                                               view_offset_y, GLOBAL_SCALE))
                   ELSE drawn[n]]
    /\ UNCHANGED << keys, speed64, program, SHOW_TRAILS, comet, universeVars,
                    solarVars,
                    flagVars >>

\* the "t" key
toggle_trails_action ==
    /\ program = "chandragayidea"
    /\ pc = "loop"
    /\ Len(keys) < MaxTrailToggles
    /\ keys' = Append(keys, "t")
    /\ SHOW_TRAILS' = ~SHOW_TRAILS
    /\ UNCHANGED << simVars, ss_speed, u_speed, call, ret, speed64, program,
                    trail, drawn, comet, universeVars, solarVars,
                    flagVars >>

\* src/solar_system.py
SS_GLOBAL_SCALE == << 9, 10 >>

AU_PIXELS == RMul(R(14), SS_GLOBAL_SCALE)

SCREEN_WIDTH == 1200

SCREEN_HEIGHT == 800

\* math.pi, to the precision that matters for a point of the trail
PI == << 355, 113 >>

\* the draws of random.uniform in Comet.__init__: a in 35..55 and b in
\* 6..18 AU_PIXELS, speed in 120..300 pixels per second
CometDraws ==
    { [a |-> RMul(R(35), AU_PIXELS), b |-> RMul(R(6), AU_PIXELS), speed |-> R(120)],
      [a |-> RMul(R(55), AU_PIXELS), b |-> RMul(R(18), AU_PIXELS), speed |-> R(300)] }

\* seconds from one frame of the main loop to the next
FrameSeconds == << 1, 10 >>

\* ... where the planets are followed: Earth turns 30 degrees
SolarDt == << 1, 24 >>

\* Comet.__init__
Comet(d) ==
    [alive |-> TRUE, x |-> RNeg(d.a), y |-> RMul(d.b, << 3, 5 >>), b |-> d.b,
     speed |-> d.speed]

\* spawn_comet, for one comet at a time
spawn_comet ==
    /\ program = "solar_system"
    /\ ~comet.alive
    /\ \E d \in CometDraws : comet' = Comet(d)
    /\ trail' = [trail EXCEPT !["comet"] = << >>]
    /\ drawn' = [drawn EXCEPT !["comet"] = << >>]
    /\ UNCHANGED << simVars, ss_speed, u_speed, call, ret, keys, speed64,
                    program, SHOW_TRAILS, universeVars, solarVars,
                    flagVars >>

\* math.sin(new_x / 80.0) * (self.b * 0.6), the sine taken at the whole
\* degree below the angle
CometY(new_x, b) ==
    RMul(SinDeg(R(Floor(RDiv(RMul(RDiv(new_x, R(80)), R(180)), PI)))),
         RMul(b, << 3, 5 >>))

\* Comet.update after the move to pt: the trail, then destroy() when the
\* comet is out of bounds
CometMoved(pt) ==
    /\ comet' = [comet EXCEPT !.x = pt[1], !.y = pt[2],
                               !.alive = ~(\/ RLess(R(SCREEN_WIDTH), RAbs(pt[1]))
                                           \/ RLess(R(SCREEN_HEIGHT), RAbs(pt[2])))]
    /\ trail' = [trail EXCEPT !["comet"] = TrailAppend(@, pt, COMET_TRAIL_LENGTH)]
    /\ drawn' = [drawn EXCEPT !["comet"] = Append(@, pt)]

CometAt(new_x) == CometMoved(<< new_x, CometY(new_x, comet.b) >>)

\* the main loop's c.update(dt, speed_multiplier) for the comet alive
Comet_update(dt) ==
    /\ program = "solar_system"
    /\ comet.alive
    /\ CometAt(RAdd(comet.x, RMul(RMul(comet.speed, dt), ss_speed)))
    /\ UNCHANGED << simVars, ss_speed, u_speed, call, ret, keys, speed64,
                    program, SHOW_TRAILS, universeVars, solarVars,
                    flagVars >>

InitTrails ==
    /\ InitRational
    /\ speed64 = Speed64Start("chandragayidea")
    /\ program \in { "chandragayidea", "solar_system" }
    /\ InitTrail
    /\ InitUniverse
    /\ InitSolarAt(R(0), R(0))

NextTrails ==
    \/ program = "chandragayidea" /\ Startup /\ UNCHANGED aside
    \/ TrailFrame
    \/ toggle_trails_action
    \/ spawn_comet
    \/ Comet_update(FrameSeconds)

SpecTrails == InitTrails /\ [][NextTrails]_vars

(***************************************************************************)
(* src/universe.py: labels, pause and frames.                              *)
(***************************************************************************)
\* Planet._show_label: the label turtle is created if there is none
show_label(p) == [p EXCEPT !.label = TRUE]

\* Planet._hide_label: self.label = None
hide_label(p) == [p EXCEPT !.label = FALSE]

\* Planet.update_position: the angle, then the label according to the
\* module constant SHOW_LABELS (line 128), whatever SHOW_LABELS_FLAG is
update_position(p, angular_speed_deg) ==
    IF SHOW_LABELS
    THEN show_label([p EXCEPT !.angle = RMod(RAdd(@, angular_speed_deg), R(360))])
    ELSE hide_label([p EXCEPT !.angle = RMod(RAdd(@, angular_speed_deg), R(360))])

\* base_angular_speeds[idx] * speed_multiplier * (TIME_STEP * (dt / 0.03))
angular_speed(p, dt) ==
    RMul(RMul(p.base, u_speed), RMul(TIME_STEP, RDiv(dt, << 3, 100 >>)))

\* seconds between two iterations of main_loop
UniverseDts == { << 3, 100 >>, << 3, 50 >> }

\* one iteration of main_loop of src/universe.py
u_frame(dt) ==
    /\ u_frames < MaxUniverseFrames
    /\ u_frames' = u_frames + 1
    /\ u_planets' = IF u_running
                    THEN [i \in 1..Len(u_planets) |->
                            update_position(u_planets[i], angular_speed(u_planets[i], dt))]
                    ELSE u_planets
    /\ UNCHANGED << simVars, ss_speed, u_speed, call, ret, keys, speed64,
                    trailVars, solarVars, flagVars, u_running, SHOW_LABELS_FLAG >>

\* the "space" key of src/universe.py
u_toggle_pause ==
    /\ u_running' = ~u_running
    /\ UNCHANGED << simVars, ss_speed, u_speed, call, ret, keys, speed64,
                    trailVars, solarVars, flagVars, SHOW_LABELS_FLAG, u_planets, u_frames >>

\* the "i" key
toggle_labels ==
    /\ SHOW_LABELS_FLAG' = ~SHOW_LABELS_FLAG
    /\ u_planets' = [i \in 1..Len(u_planets) |->
                       IF SHOW_LABELS_FLAG' THEN show_label(u_planets[i])
                       ELSE hide_label(u_planets[i])]
    /\ UNCHANGED << simVars, ss_speed, u_speed, call, ret, keys, speed64,
                    trailVars, solarVars, flagVars, u_running, u_frames >>

(***************************************************************************)
(* src/solar_system.py: planets, moons, comets and the main loop.          *)
(***************************************************************************)
ECCENTRICITY_VISUAL_SCALE == << 4, 5 >>

INCLINATION_VISUAL_SCALE == << 9, 10 >>

\* min(0.9, self.ecc * ECCENTRICITY_VISUAL_SCALE)
e_vis(p) ==
    IF RLess(<< 9, 10 >>, RMul(p.ecc, ECCENTRICITY_VISUAL_SCALE)) THEN << 9, 10 >>
    ELSE RMul(p.ecc, ECCENTRICITY_VISUAL_SCALE)

\* Planet.orbital_position of src/solar_system.py (e_vis <= 0.9, so the
\* max(0.0, ...) under the root is the second argument)
orbital_position(p, angle) ==
    << RSub(RMul(p.distance_px, CosDeg(angle)), RMul(e_vis(p), p.distance_px)),
       RMul(RMul(RMul(p.distance_px, RSqrt(RSub(R(1), Square(e_vis(p))))),
                 SinDeg(angle)),
            CosDeg(RMul(p.incl, INCLINATION_VISUAL_SCALE))) >>

\* (angle + omega * speed_multiplier * dt * 60.0) % 360.0
SteppedAngle(angle, omega, dt) ==
    RMod(RAdd(angle, RMul(RMul(RMul(omega, ss_speed), dt), R(60))), R(360))

\* Moon.update after the angle moved to new_angle: the turtle goes around
\* the parent's position; nothing shows a turtle that hide() has hidden
MoonPlaced(m, new_angle, px, py) ==
    [m EXCEPT !.angle = new_angle,
              !.x = RAdd(px, RMul(CosDeg(new_angle), m.orbit_px)),
              !.y = RAdd(py, RMul(SinDeg(new_angle), m.orbit_px))]

\* Moon.update, the parent's turtle at (px, py); omega = 360 / max(1.0,
\* period), the periods modelled being above 1
Moon_update(m, dt, px, py) ==
    MoonPlaced(m, SteppedAngle(m.angle, RDiv(R(360), m.period), dt), px, py)

\* Moon.hide
Moon_hide(m) == [m EXCEPT !.visible = FALSE]

\* Planet.update after the planet's turtle went to pos
PlanetMoved(p, new_angle, pos, dt) ==
    [p EXCEPT !.angle = new_angle, !.x = pos[1], !.y = pos[2],
              !.moons = [j \in 1..Len(p.moons) |->
                           IF SHOW_MOONS THEN Moon_update(p.moons[j], dt, pos[1], pos[2])
                           ELSE Moon_hide(p.moons[j])]]

PlanetTurned(p, new_angle, dt) ==
    PlanetMoved(p, new_angle, orbital_position(p, new_angle), dt)

\* Planet.update of src/solar_system.py
Planet_update(p, dt) == PlanetTurned(p, SteppedAngle(p.angle, p.omega, dt), dt)

\* an iteration that updates the comet alive and keeps the dead one in
\* active_comets
CometsStepKeepingDead(dt) ==
    IF comet = NoComet \/ ~comet.alive THEN UNCHANGED << comet, trail, drawn >>
    ELSE CometAt(RAdd(comet.x, RMul(RMul(comet.speed, dt), ss_speed)))

\* the comets of one iteration: the comet alive is updated, the dead one
\* is removed from active_comets
CometsStep(dt) ==
    IF comet = NoComet THEN UNCHANGED << comet, trail, drawn >>
    ELSE IF comet.alive
         THEN CometAt(RAdd(comet.x, RMul(RMul(comet.speed, dt), ss_speed)))
         ELSE comet' = NoComet /\ UNCHANGED << trail, drawn >>

\* one iteration of the main animation loop of src/solar_system.py
ss_frame(dt) ==
    /\ IF ss_running
       THEN /\ ss_planets' = [i \in 1..Len(ss_planets) |-> Planet_update(ss_planets[i], dt)]
            /\ CometsStep(dt)
       ELSE UNCHANGED << ss_planets, comet, trail, drawn >>
    /\ UNCHANGED << simVars, ss_speed, u_speed, call, ret, speed64, program,
                    SHOW_TRAILS, universeVars, flagVars, SHOW_MOONS, ss_running >>

\* the "space" key of src/solar_system.py
ss_toggle_pause ==
    /\ ss_running' = ~ss_running
    /\ UNCHANGED << simVars, ss_speed, u_speed, call, ret, speed64, trailVars,
                    universeVars, flagVars, ss_planets, SHOW_MOONS >>

\* the "m" key
toggle_moons ==
    /\ SHOW_MOONS' = ~SHOW_MOONS
    /\ UNCHANGED << simVars, ss_speed, u_speed, call, ret, speed64, trailVars,
                    universeVars, flagVars, ss_planets, ss_running >>

\* reset_sim for one planet: the angles drawn anew, the planet at its
\* orbital position and its moons on the planet
PlanetReset(p, angle, moon_angle, pos) ==
    [p EXCEPT !.angle = angle, !.x = pos[1], !.y = pos[2],
              !.moons = [j \in 1..Len(p.moons) |->
                           [p.moons[j] EXCEPT !.angle = moon_angle,
                                              !.x = pos[1], !.y = pos[2]]]]

\* the "r" key: reset_sim
reset_sim ==
    /\ ss_speed' = R(1)
    /\ \E angle \in SolarAngles, moon_angle \in SolarAngles :
          ss_planets' = [i \in 1..Len(ss_planets) |->
                           PlanetReset(ss_planets[i], angle, moon_angle,
                                       orbital_position(ss_planets[i], angle))]
    /\ comet' = NoComet
    /\ UNCHANGED << simVars, u_speed, call, ret, speed64, program, SHOW_TRAILS,
                    trail, drawn, universeVars, flagVars, SHOW_MOONS, ss_running >>

(***************************************************************************)
(* The simulator of src/chandragayidea.py under frames and every key.      *)
(***************************************************************************)
\* x is within steps speed (zoom) events of start: the keys are explored
\* from such values
WithinSteps(x, start, factor, steps) ==
    \E k \in 0..steps :
        \/ x = RMul(start, RPow(factor, k))
        \/ x = RMul(start, RPow(RDiv(R(1), factor), k))

\* the pans explored: from offsets within MaxPanSteps - 1 arrow keys of the
\* default view at the largest zoom
WithinPan(ox, oy) ==
    RLeq(RAdd(RAbs(ox), RAbs(oy)),
         RMul(R(PAN_STEP * (MaxPanSteps - 1)),
              RPow(RDiv(R(1), ZOOM_FACTOR), MaxZoomSteps)))

Next ==
    \/ Startup /\ UNCHANGED aside
    \/ \E dt_real \in 0..MaxDt : last_time + dt_real <= MaxRealTime /\ Frame(dt_real) /\ UNCHANGED aside
    \/ toggle_pause /\ UNCHANGED aside
    \/ WithinSteps(TIME_SCALE, R(TIME_SCALE_INIT), SPEED_FACTOR, MaxSpeedSteps - 1) /\ speed_up /\ UNCHANGED aside
    \/ WithinSteps(TIME_SCALE, R(TIME_SCALE_INIT), SPEED_FACTOR, MaxSpeedSteps - 1) /\ slow_down /\ UNCHANGED aside
    \/ WithinSteps(GLOBAL_SCALE, DEFAULT_VIEW[3], ZOOM_FACTOR, MaxZoomSteps - 1) /\ zoom_in /\ UNCHANGED aside
    \/ WithinSteps(GLOBAL_SCALE, DEFAULT_VIEW[3], ZOOM_FACTOR, MaxZoomSteps - 1) /\ zoom_out /\ UNCHANGED aside
    \/ \E k \in ArrowKeys :
          WithinPan(view_offset_x, view_offset_y) /\ pan(k[1], k[2]) /\ UNCHANGED aside
    \/ reset_view /\ UNCHANGED aside

Spec == Init /\ [][Next]_vars

(***************************************************************************)
(* src/chandragayidea.py: clicks between frames, under pan and zoom.       *)
(***************************************************************************)
\* where a click lands, relative to the point a body is drawn at: on it,
\* 20 pixels to its right, far from everything.  The first click of a run
\* is explored.
ClickOffsets == { << R(0), R(0) >>, << R(20), R(0) >>, << R(900), R(900) >> }

\* the screen point d away from where body n is drawn
ClickPoint(n, d) ==
    LET s == world_to_screen(curr[n][1], curr[n][2], view_offset_x,
                             view_offset_y, GLOBAL_SCALE)
    IN  << RAdd(s[1], d[1]), RAdd(s[2], d[2]) >>

\* the pans explored before a click: "Right" and "Down"
ClickPans == { << PAN_STEP, 0 >>, << 0, -PAN_STEP >> }

NextClick ==
    \/ Startup /\ UNCHANGED aside
    \/ last_time + MaxDt <= MaxRealTime /\ Frame(MaxDt) /\ UNCHANGED aside
    \/ WithinSteps(GLOBAL_SCALE, DEFAULT_VIEW[3], ZOOM_FACTOR, MaxZoomSteps - 1) /\ zoom_in /\ UNCHANGED aside
    \/ \E k \in ClickPans :
          WithinPan(view_offset_x, view_offset_y) /\ pan(k[1], k[2]) /\ UNCHANGED aside
    \/ \E n \in BodyNames, d \in ClickOffsets :
          ret = NoRet /\ on_click(ClickPoint(n, d)[1], ClickPoint(n, d)[2]) /\ UNCHANGED aside

SpecClick == Init /\ [][NextClick]_vars

(***************************************************************************)
(* src/chandragayidea.py: every key handler, before and after a frame.     *)
(***************************************************************************)
NextKeys ==
    \/ Startup /\ UNCHANGED aside
    \/ last_time < MaxDt /\ Frame(MaxDt) /\ UNCHANGED aside
    \/ toggle_pause /\ UNCHANGED aside
    \/ WithinSteps(TIME_SCALE, R(TIME_SCALE_INIT), SPEED_FACTOR, MaxSpeedSteps - 1) /\ speed_up /\ UNCHANGED aside
    \/ WithinSteps(TIME_SCALE, R(TIME_SCALE_INIT), SPEED_FACTOR, MaxSpeedSteps - 1) /\ slow_down /\ UNCHANGED aside
    \/ WithinSteps(GLOBAL_SCALE, DEFAULT_VIEW[3], ZOOM_FACTOR, MaxZoomSteps - 1) /\ zoom_in /\ UNCHANGED aside
    \/ WithinSteps(GLOBAL_SCALE, DEFAULT_VIEW[3], ZOOM_FACTOR, MaxZoomSteps - 1) /\ zoom_out /\ UNCHANGED aside
    \/ \E k \in ClickPans :
          WithinPan(view_offset_x, view_offset_y) /\ pan(k[1], k[2]) /\ UNCHANGED aside
    \/ reset_view /\ UNCHANGED aside
    \/ toggle_orbits_action
    \/ toggle_labels_action
    \/ toggle_trails_action

SpecKeys == Init /\ [][NextKeys]_vars

(***************************************************************************)
(* The view keys of src/chandragayidea.py alone, each key recorded.        *)
(***************************************************************************)
\* lines 742-748: the keys bound to the view handlers
ArrowBinding ==
    [Left |-> << -PAN_STEP, 0 >>, Right |-> << PAN_STEP, 0 >>,
     Up |-> << 0, PAN_STEP >>, Down |-> << 0, -PAN_STEP >>]

Pressed(key) ==
    /\ Len(keys) < MaxKeys
    /\ keys' = Append(keys, key)
    /\ UNCHANGED << speed64, trailVars, universeVars, solarVars,
                    flagVars >>

NextView ==
    \/ Startup /\ UNCHANGED aside
    \/ zoom_in /\ Pressed("z")
    \/ zoom_out /\ Pressed("x")
    \/ \E key \in DOMAIN ArrowBinding :
          pan(ArrowBinding[key][1], ArrowBinding[key][2]) /\ Pressed(key)
    \/ reset_view /\ Pressed("r")

SpecView == Init /\ [][NextView]_vars

(***************************************************************************)
(* src/solar_system.py under frames, pause, the moons key and reset, the   *)
(* steps taken recorded in keys.                                           *)
(***************************************************************************)
Logged(key) == Len(keys) < MaxKeys /\ keys' = Append(keys, key)

InitSolar ==
    /\ InitRational
    /\ speed64 = Speed64Start("solar_system")
    /\ program = "solar_system"
    /\ InitTrail
    /\ InitUniverse
    /\ \E angle \in SolarAngles, moon_angle \in SolarAngles :
          InitSolarAt(angle, moon_angle)

NextSolar ==
    \/ ss_frame(SolarDt) /\ Logged("frame")
    \/ ss_toggle_pause /\ Logged("space")
    \/ toggle_moons /\ Logged("m")
    \/ reset_sim /\ Logged("r")

SpecSolar == InitSolar /\ [][NextSolar]_vars

(***************************************************************************)
(* src/solar_system.py: a comet from spawn_comet to its removal.  The main *)
(* loop never ends, so an iteration that can change something is           *)
(* eventually executed.                                                    *)
(***************************************************************************)
InitComet ==
    /\ InitRational
    /\ speed64 = Speed64Start("solar_system")
    /\ program = "solar_system"
    /\ InitTrail
    /\ InitUniverse
    /\ InitSolarAt(R(0), R(0))

\* an iteration of the main loop, FrameSeconds after the last
CometFrame == ss_frame(FrameSeconds) /\ UNCHANGED keys

NextComet ==
    \/ comet = NoComet /\ spawn_comet
    \/ CometFrame
    \/ ss_toggle_pause /\ UNCHANGED keys

\* weak fairness of the iteration, WF_vars(CometFrame), written out: a
\* running iteration turns every planet, so << CometFrame >>_vars is
\* enabled exactly when ss_running holds
FrameFairness == ([]<>(~ss_running)) \/ ([]<><< CometFrame >>_vars)

SpecComet == InitComet /\ [][NextComet]_vars /\ FrameFairness

(***************************************************************************)
(* src/india.py: try_download_geojson and the start of main.  call holds   *)
(* what the run finds (the local file, what each URL serves), ret how far  *)
(* the run is.                                                             *)
(***************************************************************************)
\* GEOJSON_URLS has four entries
GEOJSON_URLS == 1..4

\* LOCAL_GEOJSON: no such file, a file holding JSON, a file json.load rejects
LocalFiles == { "absent", "json", "not_json" }

\* what a URL serves: nothing (urlopen raises), a body json.loads rejects, a
\* JSON array, the India feature, a collection of countries with India in
\* it, another JSON object
UrlOutcomes ==
    { "unreachable", "not_json", "array", "india", "countries", "other" }

\* the bodies json.loads accepts
ParsedOutcomes == { "array", "india", "countries", "other" }

\* the bodies that are JSON objects
ObjectOutcomes == { "india", "countries", "other" }

\* a fetch that returns whatever json.loads accepted
FetchedAnyJson(outcome) ==
    IF outcome \in { "unreachable", "not_json" }
    THEN [ok |-> FALSE, gj |-> "none"]
    ELSE [ok |-> TRUE, gj |-> "data"]

\* the body of the for loop, lines 96-120: urlopen or json.loads raise; on an
\* array is_india_feature returns False or raises and data.get raises
\* AttributeError; every exception is caught and the loop goes on.  A
\* collection with India in it is returned as a new collection of that
\* feature, any other object as it is.
Fetched(outcome) ==
    CASE outcome = "unreachable" -> [ok |-> FALSE, gj |-> "none"]
      [] outcome = "not_json" -> [ok |-> FALSE, gj |-> "none"]
      [] outcome = "array" -> [ok |-> FALSE, gj |-> "none"]
      [] outcome = "india" -> [ok |-> TRUE, gj |-> "data"]
      [] outcome = "countries" -> [ok |-> TRUE, gj |-> "india_feature"]
      [] outcome = "other" -> [ok |-> TRUE, gj |-> "data"]

\* main is called
IndiaStart ==
    [at |-> "local", i |-> 0, tried |-> << >>, gj |-> "none", from |-> "none",
     err |-> "none"]

InitIndia ==
    /\ InitSim(PLANET_RAW, StartAngle, R(0))
    /\ InitSpeeds
    /\ call \in [fn : { "main" }, local : LocalFiles,
                 urls : [GEOJSON_URLS -> UrlOutcomes]]
    /\ ret = IndiaStart
    /\ keys = << >>
    /\ speed64 = Speed64Start("chandragayidea")
    /\ program = "india"
    /\ InitTrail
    /\ InitUniverse
    /\ InitSolarAt(R(0), R(0))

\* lines 90-93: the local file, when it exists, is loaded and returned; an
\* exception of json.load leaves try_download_geojson and main
local_geojson ==
    /\ ret.at = "local"
    /\ ret' = CASE call.local = "absent" -> [ret EXCEPT !.at = "urls", !.i = 1]
                [] call.local = "json" ->
                     [ret EXCEPT !.at = "returned", !.gj = "data", !.from = "local"]
                [] call.local = "not_json" ->
                     [ret EXCEPT !.at = "crashed", !.err = "JSONDecodeError"]
    /\ UNCHANGED << simVars, ss_speed, u_speed, call >>

\* one iteration of "for url in GEOJSON_URLS"
try_url ==
    /\ ret.at = "urls"
    /\ ret.i \in GEOJSON_URLS
    /\ LET r == Fetched(call.urls[ret.i])
       IN  ret' = IF r.ok
                  THEN [ret EXCEPT !.at = "returned", !.gj = r.gj, !.from = "url",
                                   !.tried = Append(@, ret.i)]
                  ELSE [ret EXCEPT !.i = @ + 1, !.tried = Append(@, ret.i)]
    /\ UNCHANGED << simVars, ss_speed, u_speed, call >>

\* line 122: the loop ended without a return
raise_RuntimeError ==
    /\ ret.at = "urls"
    /\ ret.i \notin GEOJSON_URLS
    /\ ret' = [ret EXCEPT !.at = "raised", !.err = "RuntimeError"]
    /\ UNCHANGED << simVars, ss_speed, u_speed, call >>

\* main lines 413-417: RuntimeError is caught, "ERROR:" printed, and main
\* returns; with a result main goes on to extract and draw the polygons
india_main ==
    /\ ret.at \in { "raised", "returned" }
    /\ ret' = [ret EXCEPT !.at = IF ret.at = "raised" THEN "exited" ELSE "drawing"]
    /\ UNCHANGED << simVars, ss_speed, u_speed, call >>

NextIndia ==
    \/ local_geojson /\ UNCHANGED aside
    \/ try_url /\ UNCHANGED aside
    \/ raise_RuntimeError /\ UNCHANGED aside
    \/ india_main /\ UNCHANGED aside

SpecIndia == InitIndia /\ [][NextIndia]_vars

(***************************************************************************)
(* The simulator started on any table, valid or not, with the clock keys.  *)
(***************************************************************************)
InitAnyTable ==
    /\ \E rows \in InvalidTables \cup { PLANET_RAW } :
          InitSim(rows, StartAngle, R(0))
    /\ InitSpeeds
    /\ call = NoCall
    /\ ret = NoRet
    /\ keys = << >>
    /\ InitAside

NextClock ==
    \/ Startup /\ UNCHANGED aside
    \/ \E dt_real \in 0..MaxDt : last_time + dt_real <= MaxRealTime /\ Frame(dt_real) /\ UNCHANGED aside
    \/ toggle_pause /\ UNCHANGED aside
    \/ WithinSteps(TIME_SCALE, R(TIME_SCALE_INIT), SPEED_FACTOR, MaxSpeedSteps - 1) /\ speed_up /\ UNCHANGED aside
    \/ WithinSteps(TIME_SCALE, R(TIME_SCALE_INIT), SPEED_FACTOR, MaxSpeedSteps - 1) /\ slow_down /\ UNCHANGED aside

SpecConfig == InitAnyTable /\ [][NextClock]_vars

(***************************************************************************)
(* The speed keys of the three simulators alone.                           *)
(***************************************************************************)
NextSpeed ==
    \/ Startup /\ UNCHANGED aside
    \/ WithinSteps(TIME_SCALE, R(TIME_SCALE_INIT), SPEED_FACTOR, MaxSpeedRange - 1) /\ speed_up /\ UNCHANGED aside
    \/ WithinSteps(TIME_SCALE, R(TIME_SCALE_INIT), SPEED_FACTOR, MaxSpeedRange - 1) /\ slow_down /\ UNCHANGED aside
    \/ WithinSteps(ss_speed, R(1), SS_SPEED_FACTOR, MaxSpeedRange - 1) /\ ss_speed_up /\ UNCHANGED aside
    \/ WithinSteps(ss_speed, R(1), SS_SPEED_FACTOR, MaxSpeedRange - 1) /\ ss_slow_down /\ UNCHANGED aside
    \/ WithinSteps(u_speed, R(1), U_SPEED_FACTOR, MaxSpeedRange - 1) /\ u_speed_up /\ UNCHANGED aside
    \/ WithinSteps(u_speed, R(1), U_SPEED_FACTOR, MaxSpeedRange - 1) /\ u_slow_down /\ UNCHANGED aside

SpecSpeed == Init /\ [][NextSpeed]_vars

\* src/universe.py under frames and its keys
NextUniverse ==
    \/ \E dt \in UniverseDts : u_frame(dt)
    \/ u_toggle_pause
    \/ toggle_labels
    \/ WithinSteps(u_speed, R(1), U_SPEED_FACTOR, MaxSpeedSteps - 1) /\ u_speed_up /\ UNCHANGED aside
    \/ WithinSteps(u_speed, R(1), U_SPEED_FACTOR, MaxSpeedSteps - 1) /\ u_slow_down /\ UNCHANGED aside

SpecUniverse == Init /\ [][NextUniverse]_vars

(***************************************************************************)
(* The position functions of src/chandragayidea.py applied to bounded      *)
(* inputs: call holds the inputs, ret what the function returned.          *)
(***************************************************************************)
\* simulated times t, and whole numbers k of periods added to them
Times == { R(-130), R(0), R(50), << 200, 3 >>, R(600) }

PeriodCounts == { -2, -1, 1, 3 }

Scales == { R(1), ZOOM_FACTOR }

\* planets built from every row of the valid and of the invalid tables
HarnessPlanets ==
    { Planet(t[i], angle, << >>, R(0)) :
        t \in InvalidTables \cup { PLANET_RAW }, i \in 1..2, angle \in AngleSet }

\* moons that differ in eccentricity, inclination and start angle only
HarnessMoons ==
    { Moon("Earth", MoonRow("Earth", "Moon", R(400), R(120), ecc, inc), angle) :
        ecc \in { R(0), << 3, 5 >> }, inc \in { R(0), R(60) }, angle \in AngleSet }

ParentPositions == { << R(0), R(0) >>, << R(50), R(50) >>, << R(-30), << 7, 2 >> >> }

OrbitCalls ==
    [fn : { "compute_orbital_position" }, p : HarnessPlanets, t : Times,
     k : PeriodCounts, scale : Scales]

MoonCalls ==
    [fn : { "Moon.draw" }, m : HarnessMoons, radius_px : { R(26) }, t : Times,
     parent : ParentPositions]

ViewCalls ==
    [fn : { "world_to_screen" }, x : { R(10), R(-3) }, y : { R(20), << 1, 2 >> },
     off_x : { R(5), R(0) }, off_y : { R(5), R(-40) },
     scale : { R(2), R(1), ZOOM_FACTOR }]

InitFn ==
    /\ InitSim(PLANET_RAW, StartAngle, R(0))
    /\ InitSpeeds
    /\ call \in OrbitCalls \cup MoonCalls \cup ViewCalls
    /\ ret = NoRet
    /\ keys = << >>
    /\ InitAside

call_compute_orbital_position ==
    /\ call.fn = "compute_orbital_position"
    /\ ret = NoRet
    /\ ret' = compute_orbital_position(call.p, call.t, call.scale)
    /\ UNCHANGED << simVars, ss_speed, u_speed, call >>

call_Moon_draw ==
    /\ call.fn = "Moon.draw"
    /\ ret = NoRet
    /\ ret' = Moon_draw(call.m, call.radius_px, call.t, call.parent[1], call.parent[2])
    /\ UNCHANGED << simVars, ss_speed, u_speed, call >>

\* the screen position returned as x, y
Returned(s) == [err |-> "none", x |-> s[1], y |-> s[2]]

call_world_to_screen ==
    /\ call.fn = "world_to_screen"
    /\ ret = NoRet
    /\ ret' = Returned(world_to_screen(call.x, call.y, call.off_x, call.off_y, call.scale))
    /\ UNCHANGED << simVars, ss_speed, u_speed, call >>

NextFn ==
    \/ call_compute_orbital_position /\ UNCHANGED aside
    \/ call_Moon_draw /\ UNCHANGED aside
    \/ call_world_to_screen /\ UNCHANGED aside

SpecFn == InitFn /\ [][NextFn]_vars

(***************************************************************************)
(* compute_orbital_position along an orbit: bodies that differ in size,    *)
(* period, start angle, eccentricity and inclination, at the twelfths of   *)
(* their period.                                                           *)
(***************************************************************************)
\* twelfths of a period, from before time 0 to beyond one period
Twelfths == (0 - MaxTwelfths) .. (12 + MaxTwelfths)

OrbitBodies ==
    { Planet(PlanetRow("Body", a, e, inc, period, R(26)), angle, << >>, R(0)) :
        a \in { << 1, 2 >>, R(1) }, e \in { R(0), << 3, 5 >> },
        inc \in { R(0), R(60) }, period \in { R(365), R(480) },
        angle \in { R(0), R(90), R(30) } }

\* the call at q twelfths of the body's period
OrbitCallAt(p, q, scale) ==
    [fn |-> "compute_orbital_position", p |-> p, q |-> q,
     t |-> RMul(<< q, 12 >>, p.period_days), scale |-> scale]

InitOrbit ==
    /\ InitSim(PLANET_RAW, StartAngle, R(0))
    /\ InitSpeeds
    /\ ret = NoRet
    /\ keys = << >>
    /\ InitAside
    /\ call \in { OrbitCallAt(p, q, scale) :
                    p \in OrbitBodies, q \in Twelfths, scale \in Scales }

NextOrbit == call_compute_orbital_position /\ UNCHANGED aside

SpecOrbit == InitOrbit /\ [][NextOrbit]_vars

(***************************************************************************)
(* Properties.                                                             *)
(***************************************************************************)
\* no position has been computed yet
NothingDrawn == curr = [n \in BodyNames |-> << R(0), R(0) >>]

\* C1: while paused, no step changes sim_days: neither a frame, whatever
\* real time it took, nor a handler.
C1_PausedClockFrozen == [][paused => sim_days' = sim_days]_vars

\* C1: a frame has been drawn, real time has elapsed, the simulator is
\* paused and the clock still reads its initial 0.
C1_Witness ==
    /\ pc = "loop"
    /\ paused
    /\ last_time > 0
    /\ ~NothingDrawn
    /\ sim_days = R(0)

\* C2: pan and zoom never affect what compute_orbital_position returns: as
\* long as sim_days stays the same, the positions a frame computes are the
\* positions the frame before it computed.
C2_PositionIndependentOfView ==
    [][(sim_days' = sim_days /\ ~NothingDrawn /\ pc' = "loop") => curr' = curr]_vars

\* C3: sim_days never decreases, and a step that changes it is one frame of
\* the running simulator, which adds dt_real * TIME_SCALE to it; no handler
\* changes it.
C3_ClockMonotonic ==
    [][/\ RLeq(sim_days, sim_days')
       /\ sim_days' # sim_days =>
            /\ ~paused
            /\ last_time' > last_time
            /\ sim_days' = RAdd(sim_days, RMul(R(last_time' - last_time), TIME_SCALE))
            /\ << paused', TIME_SCALE', GLOBAL_SCALE', view_offset_x', view_offset_y' >>
                 = << paused, TIME_SCALE, GLOBAL_SCALE, view_offset_x, view_offset_y >>]_vars

\* C3: the clock has advanced over all the real time explored, at a speed
\* the keys changed.
C3_Witness ==
    /\ RLess(R(0), sim_days)
    /\ last_time = MaxRealTime
    /\ TIME_SCALE # R(TIME_SCALE_INIT)

\* a body the specification calls valid: 0 <= e < 1, period > 0, a > 0
ValidBody(p) ==
    /\ RLeq(R(0), p.e)
    /\ RLess(p.e, R(1))
    /\ RPos(p.period_days)
    /\ RPos(p.a)

C5_RaisesConfigurationError ==
    (/\ call.fn = "compute_orbital_position"
     /\ ret # NoRet
     /\ RLeq(R(1), call.p.e) \/ call.p.period_days = R(0)) =>
        ret.err = "ConfigurationError"

\* C6: with an invalid body in the table, the program ends at startup: no
\* frame is executed and no position is ever computed.
C6_InvalidConfigNeverDraws ==
    (\E i \in 1..Len(planets) : ~ValidBody(planets[i])) => NothingDrawn

\* C7: world_to_screen returns (position + pan) * zoom; position (10, 20),
\* pan (5, 5) and zoom 2 give (30, 50).
C7_ViewTransform ==
    (call.fn = "world_to_screen" /\ ret # NoRet) =>
        /\ ret.x = RMul(RAdd(call.x, call.off_x), call.scale)
        /\ ret.y = RMul(RAdd(call.y, call.off_y), call.scale)
        /\ (<< call.x, call.y, call.off_x, call.off_y, call.scale >>
              = << R(10), R(20), R(5), R(5), R(2) >>)
             => << ret.x, ret.y >> = << R(30), R(50) >>

\* C7: the worked example has been computed.
C7_Witness ==
    /\ call.fn = "world_to_screen"
    /\ << call.x, call.y, call.off_x, call.off_y, call.scale >>
         = << R(10), R(20), R(5), R(5), R(2) >>
    /\ ret # NoRet
    /\ ret.x = R(30)

\* C8: a moon's position is its parent's position plus the moon's own
\* offset, the position it would have around a parent at the origin.
C8_MoonAdditive ==
    (call.fn = "Moon.draw" /\ ret # NoRet) =>
        /\ ret.err = "none"
        /\ ret.x = RAdd(call.parent[1],
                        Moon_draw(call.m, call.radius_px, call.t, R(0), R(0)).x)
        /\ ret.y = RAdd(call.parent[2],
                        Moon_draw(call.m, call.radius_px, call.t, R(0), R(0)).y)

\* C8: an inclined moon off its line of nodes drawn around a parent that is
\* away from the origin.
C8_Witness ==
    /\ call.fn = "Moon.draw"
    /\ call.parent = << R(50), R(50) >>
    /\ call.m.incl = R(60)
    /\ ret # NoRet
    /\ ret.err = "none"
    /\ ret.x # R(50)
    /\ ret.y # R(50)

\* C9: a moon's offset from its parent is computed with the planets' formula
\* from the moon's own parameters, the factor sqrt(1 - e^2) of its
\* eccentricity included.
C9_MoonUsesEccentricity ==
    (call.fn = "Moon.draw" /\ ret # NoRet) =>
        /\ ret.err = "none"
        /\ RSub(ret.x, call.parent[1])
             = RMul(moon_dist_to_pixels(call.m.dist_thousand_km, call.radius_px),
                    CosDeg(OrbitAngle(call.t, call.m.orbital_period, call.m.angle)))
        /\ RSub(ret.y, call.parent[2])
             = RMul(RMul(RMul(moon_dist_to_pixels(call.m.dist_thousand_km, call.radius_px),
                              RSqrt(RSub(R(1), RMul(call.m.ecc, call.m.ecc)))),
                         SinDeg(OrbitAngle(call.t, call.m.orbital_period, call.m.angle))),
                    CosDeg(call.m.incl))

\* C10: TIME_SCALE and the speed_multiplier of solar_system.py and of
\* universe.py are greater than 0 in every reachable state.
C10_SpeedsPositive == RPos(TIME_SCALE) /\ RPos(ss_speed) /\ RPos(u_speed)

\* C10: each of the three speeds slowed down as far as explored.
C10_Witness ==
    /\ TIME_SCALE = RMul(R(TIME_SCALE_INIT), RPow(RDiv(R(1), SPEED_FACTOR), MaxSpeedRange))
    /\ ss_speed = RPow(RDiv(R(1), SS_SPEED_FACTOR), MaxSpeedRange)
    /\ u_speed = RPow(RDiv(R(1), U_SPEED_FACTOR), MaxSpeedRange)

\* the screen position of the world point pt under the current view
ScreenOf(pt) ==
    world_to_screen(pt[1], pt[2], view_offset_x, view_offset_y, GLOBAL_SCALE)

\* fixed world points
WorldPoints == { << R(0), R(0) >>, << R(200), R(-75) >>, << << -7, 2 >>, R(10) >> }

\* C11: after any sequence of zoom_in, zoom_out, pan and reset_view events
\* GLOBAL_SCALE is greater than 0.
C11_ZoomPositive == RPos(GLOBAL_SCALE)

\* C11: zoomed out as often as explored but once, then panned: pan has
\* divided by the smallest GLOBAL_SCALE.
C11_Witness ==
    /\ Len(keys) = MaxKeys
    /\ GLOBAL_SCALE = RPow(RDiv(R(1), ZOOM_FACTOR), MaxKeys - 1)
    /\ keys[MaxKeys] = "Right"
    /\ RPos(view_offset_x)

\* C12: right after reset_view the pan offset is (0, 0) and the zoom scale
\* is 1.0, whatever keys came before.
C12_ResetViewRestoresDefaults ==
    (keys # << >> /\ keys[Len(keys)] = "r") =>
        /\ view_offset_x = R(0)
        /\ view_offset_y = R(0)
        /\ GLOBAL_SCALE = R(1)

\* C12: reset_view after a zoom and pans in both directions.
C12_Witness ==
    /\ keys = << "z", "Left", "Up", "r" >>
    /\ GLOBAL_SCALE = R(1)

ScaleTo(x, e) == BShl(x[1], x[2] - e)

BDist(a, b) == IF BLess(a, b) THEN BSub(b, a) ELSE BSub(a, b)

\* the doubles x and y differ by at most k units in the last place of y
WithinUlpsAt(x, y, k, e) ==
    BLeq(BDist(ScaleTo(x, e), ScaleTo(y, e)), BShl(BFromNat(k), y[2] - e))

WithinUlps(x, y, k) == WithinUlpsAt(x, y, k, IF x[2] < y[2] THEN x[2] ELSE y[2])

\* C14 as stated: as many speed-ups as slow-downs, in any order, leave the
\* speed global of each simulator equal to its starting value.
C14_ExactRoundTrip ==
    speed64.ups = speed64.downs
        => speed64.value = Speed64Start(speed64.program).value

\* C14 amended: as many speed-ups as slow-downs, n of each in any order,
\* leave the speed global of each simulator within 2n units in the last
\* place of its starting value: every *= and /= rounds its result.
C14_RoundTripUpToRounding ==
    speed64.ups = speed64.downs
        => WithinUlps(speed64.value, Speed64Start(speed64.program).value,
                      2 * speed64.ups)

\* '-' four times and '+' four times in src/chandragayidea.py, and
\* TIME_SCALE is not the 120.0 it started from
C14_Witness ==
    /\ speed64.program = "chandragayidea"
    /\ speed64.ups = MaxPresses
    /\ speed64.downs = MaxPresses
    /\ speed64.value # Speed64Start(speed64.program).value

\* C15: no frame and no user event adds or removes a planet or a moon, or
\* changes a body's orbital parameters (a, e, inc, period, angle_deg, and
\* each moon's distance, period, ecc, incl, angle): the list planets with
\* the moons lists inside it stays as built at module level.
C15_BodiesStatic == [][planets' = planets]_vars

\* frames have drawn the bodies away from (0, 0) at a later simulated time,
\* and speed and view keys have been handled
C15_Witness ==
    /\ pc = "loop"
    /\ RPos(sim_days)
    /\ curr["Earth"] # << R(0), R(0) >>
    /\ curr["Moon"] # << R(0), R(0) >>
    /\ TIME_SCALE # R(TIME_SCALE_INIT)
    /\ GLOBAL_SCALE # R(1)

IsSuffix(t, h) ==
    /\ Len(t) <= Len(h)
    /\ t = SubSeq(h, Len(h) - Len(t) + 1, Len(h))

\* C16: every planet's and moon's trail holds at most MAX_TRAIL_POINTS
\* points and the comet's at most COMET_TRAIL_LENGTH, and a trail is the
\* most recent positions of its body, in order (the oldest are the ones
\* dropped); a trail shown after a draw ends with the latest position.
C16_TrailsBounded ==
    \A n \in TrailNames :
        /\ Len(trail[n]) <= (IF n = "comet" THEN COMET_TRAIL_LENGTH ELSE MAX_TRAIL_POINTS)
        /\ IsSuffix(trail[n], drawn[n])

\* more than MAX_TRAIL_POINTS frames drawn and Earth's trail is full
C16_Witness ==
    /\ Len(drawn["Earth"]) > MAX_TRAIL_POINTS
    /\ Len(trail["Earth"]) = MAX_TRAIL_POINTS
    /\ Len(trail["Moon"]) = MAX_TRAIL_POINTS

\* where the moon named n sits: << planet index, index in its moons list >>
MoonPlaces(n) ==
    { ij \in (1..Len(planets)) \X (1..Len(MOONS_RAW)) :
        /\ ij[2] <= Len(planets[ij[1]].moons)
        /\ planets[ij[1]].moons[ij[2]].name = n }

MoonNames == { MOONS_RAW[j].name : j \in 1..Len(MOONS_RAW) }

\* C17: every constructed moon sits in exactly one moons list, the one of
\* the planet that is its parent; no planet is in a moons list, and a moon
\* has no moons of its own (two levels).
C17_OwnershipTree ==
    /\ \A n \in MoonNames : Cardinality(MoonPlaces(n)) <= 1
    /\ \A i \in 1..Len(planets) : \A j \in 1..Len(planets[i].moons) :
          /\ planets[i].moons[j].parent = planets[i].name
          /\ "moons" \notin DOMAIN planets[i].moons[j]
          /\ \A k \in 1..Len(planets) : planets[i].moons[j].name # planets[k].name

\* the simulator runs with a moon attached to Earth and none to Mars
C17_Witness ==
    /\ pc = "loop"
    /\ RPos(sim_days)
    /\ MoonPlaces("Moon") = { << 1, 1 >> }
    /\ planets[2].moons = << >>

Circular(p) == p.e = R(0) /\ p.inclination = R(0)

\* x^2 + y^2 of the position ret is r^2 times cos^2 + sin^2 of the angle
OnCircle(r, theta) ==
    RAdd(Square(ret.x), Square(ret.y))
        = RMul(Square(r), RAdd(Square(CosDeg(theta)), Square(SinDeg(theta))))

\* C18: a body with eccentricity 0 and inclination 0 is at a_px * (cos, sin)
\* of its orbital angle, a_px = au_to_px(a) its orbital radius in pixels:
\* x^2 + y^2 is a_px^2 times cos^2 + sin^2, which is 1 for math.cos and
\* math.sin up to rounding, and exactly 1 here at the multiples of 90
\* degrees, where x^2 + y^2 = a_px^2.
C18_OnCircle ==
    (call.fn = "compute_orbital_position" /\ ret # NoRet /\ Circular(call.p)) =>
        /\ ret.err = "none"
        /\ OnCircle(au_to_px(call.p.a, call.scale),
                    OrbitAngle(call.t, call.p.period_days, call.p.angle_deg))
        /\ (call.q % 3 = 0 /\ call.p.angle_deg # R(30)) =>
              RAdd(Square(ret.x), Square(ret.y))
                  = Square(au_to_px(call.p.a, call.scale))

\* a circular body a third of a period after time 0, started at 30 degrees,
\* away from both axes
C18_Witness ==
    /\ call.fn = "compute_orbital_position"
    /\ Circular(call.p)
    /\ call.q = 4
    /\ call.p.angle_deg = R(30)
    /\ ret # NoRet
    /\ ret.err = "none"
    /\ ret.x # R(0)
    /\ ret.y # R(0)

\* the q-th axis point of the circle of radius r, counter-clockwise from
\* (r, 0)
AxisPoint(r, q) ==
    IF q % 4 = 0 THEN << r, R(0) >>
    ELSE IF q % 4 = 1 THEN << R(0), r >>
    ELSE IF q % 4 = 2 THEN << RNeg(r), R(0) >>
    ELSE << R(0), RNeg(r) >>

\* C19: the orbital angle is ((t / period) mod 1) * 360 + initial phase: a
\* circular body started at phase 0 is at (r, 0) at time 0, at (0, r) a
\* quarter period later, and after q quarter periods at the q-th axis
\* point counter-clockwise (q may be negative or beyond one period); one
\* started at phase 90 is one axis point ahead.
C19_QuarterPeriods ==
    (/\ call.fn = "compute_orbital_position" /\ ret # NoRet /\ Circular(call.p)
     /\ call.q % 3 = 0 /\ call.p.angle_deg \in { R(0), R(90) }) =>
        /\ ret.err = "none"
        /\ << ret.x, ret.y >>
              = AxisPoint(au_to_px(call.p.a, call.scale),
                          (call.q \div 3) + Floor(RDiv(call.p.angle_deg, R(90))))

\* the body of orbital radius 100, period 365 and phase 0 at t = 91.25 is
\* at (0, 100)
C19_Witness ==
    /\ call.fn = "compute_orbital_position"
    /\ Circular(call.p)
    /\ au_to_px(call.p.a, call.scale) = R(100)
    /\ call.p.period_days = R(365)
    /\ call.p.angle_deg = R(0)
    /\ call.t = << 365, 4 >>
    /\ ret # NoRet
    /\ << ret.x, ret.y >> = << R(0), R(100) >>

\* C20: while toggle_labels has the labels switched off, no planet of
\* src/universe.py has a label object.
C20_LabelsStayOff ==
    ~SHOW_LABELS_FLAG => \A i \in 1..Len(u_planets) : ~u_planets[i].label

LastKey == IF keys = << >> THEN "none" ELSE keys[Len(keys)]

\* C21: with the moons enabled, after a running frame every moon of
\* src/solar_system.py is visible.
C21_MoonsVisibleAgain ==
    (SHOW_MOONS /\ ss_running /\ LastKey = "frame") =>
        \A i \in 1..Len(ss_planets) : \A j \in 1..Len(ss_planets[i].moons) :
            ss_planets[i].moons[j].visible

\* C22: immediately after reset_sim every planet and moon of
\* src/solar_system.py has the orbital angle it had when the program
\* started, and every planet is at the orbital position of that angle.
C22_ResetRestoresStart ==
    LastKey = "r" =>
        \A i \in 1..Len(ss_planets) :
            /\ ss_planets[i].angle = ss_planets[i].start
            /\ << ss_planets[i].x, ss_planets[i].y >>
                  = orbital_position(ss_planets[i], ss_planets[i].start)
            /\ \A j \in 1..Len(ss_planets[i].moons) :
                  ss_planets[i].moons[j].angle = ss_planets[i].moons[j].start


\* C23: a click within a planet's hit radius completes without an exception
\* and the info panel is drawn for the first planet that matches.
C23_PlanetClickShowsInfo ==
    ("done" \in DOMAIN ret /\ ret.done.kind = "planet") =>
        ret.done.err = "none" /\ ret.done.shown = ret.done.hit

\* the URLs before k, in list order
UrlsUpTo(k) == [j \in 1..k |-> j]

\* try_download_geojson and main's handling of it are over
IndiaDone == ret.at \in { "drawing", "exited", "crashed" }

\* C24 as stated: the result of the first URL that downloads and parses is
\* returned.
C24_FirstParsedUrlReturned ==
    (IndiaDone /\ call.local = "absent"
       /\ \E i \in GEOJSON_URLS : call.urls[i] \in ParsedOutcomes) =>
        /\ ret.from = "url"
        /\ call.urls[ret.tried[Len(ret.tried)]] \in ParsedOutcomes
        /\ \A j \in 1..(Len(ret.tried) - 1) : call.urls[ret.tried[j]] \notin ParsedOutcomes

\* C24: an existing local file is used and no URL is tried; without one the
\* URLs are tried in list order up to the first that downloads and parses to
\* a JSON object, whose result is returned; RuntimeError is raised exactly
\* when there is no local file and no URL serves a JSON object, and main
\* then returns without drawing.
C24_FallbackOrder ==
    /\ ret.tried = UrlsUpTo(Len(ret.tried))
    /\ call.local # "absent" => ret.tried = << >> /\ ret.from # "url"
    /\ ret.from = "local" => call.local = "json"
    /\ ret.from = "url" =>
          /\ call.urls[ret.tried[Len(ret.tried)]] \in ObjectOutcomes
          /\ \A j \in 1..(Len(ret.tried) - 1) :
                call.urls[ret.tried[j]] \notin ObjectOutcomes
    /\ IndiaDone =>
          /\ ret.err = "RuntimeError" <=>
                /\ call.local = "absent"
                /\ \A i \in GEOJSON_URLS : call.urls[i] \notin ObjectOutcomes
          /\ ret.err = "RuntimeError" => ret.at = "exited" /\ ret.gj = "none"
          /\ (call.local = "absent"
                /\ \E i \in GEOJSON_URLS : call.urls[i] \in ObjectOutcomes) =>
                ret.at = "drawing" /\ ret.from = "url"

\* a run without a local file whose first URL serves a JSON array and whose
\* second URL's collection is returned
C24_Witness ==
    /\ call.local = "absent"
    /\ call.urls[1] = "array"
    /\ ret.at = "drawing"
    /\ ret.tried = << 1, 2 >>
    /\ ret.gj = "india_feature"

\* the step is an iteration of main_loop that went through
FrameStep ==
    pc = "loop" /\ pc' = "loop" /\ (last_time' # last_time \/ curr' # curr)

\* the position compute_orbital_position gives planet p at clock sim
PlanetAt(p, sim, scale) ==
    LET r == compute_orbital_position(p, sim, scale) IN << r.x, r.y >>

\* the position Moon.draw gives moon m at clock sim around parent_pos
MoonAt(m, radius_px, sim, parent_pos) ==
    LET r == Moon_draw(m, radius_px, sim, parent_pos[1], parent_pos[2])
    IN  << r.x, r.y >>

\* C25: a frame measures the elapsed time, advances the clock unless
\* paused, and then recomputes the positions: every planet is where the
\* frame's own clock puts it, every moon where that clock puts it around the
\* position its parent got in the same frame.
C25_FrameOrder ==
    [][FrameStep =>
        /\ sim_days' = AdvanceClock(sim_days, last_time' - last_time, TIME_SCALE, paused)
        /\ \A i \in 1..Len(planets) :
              /\ curr'[planets[i].name] = PlanetAt(planets[i], sim_days', GLOBAL_SCALE)
              /\ \A j \in 1..Len(planets[i].moons) :
                    curr'[planets[i].moons[j].name] =
                        MoonAt(planets[i].moons[j], planets[i].radius_px, sim_days',
                               curr'[planets[i].name])]_vars

\* after a frame at a running clock Mars and the Moon are where the clock of
\* 120 days puts them, the Moon around the Earth of the same frame
C25_Witness ==
    /\ pc = "loop"
    /\ sim_days = R(120)
    /\ curr["Mars"] = PlanetAt(planets[2], R(120), GLOBAL_SCALE)
    /\ curr["Mars"] # PlanetAt(planets[2], R(0), GLOBAL_SCALE)
    /\ curr["Moon"] = MoonAt(planets[1].moons[1], planets[1].radius_px, R(120),
                             curr["Earth"])
    /\ curr["Moon"] # curr["Earth"]

\* C26: every iteration refreshes last_time, so the time spent paused is
\* never credited: a frame leaves the clock alone while paused, and
\* otherwise advances it by its own interval times TIME_SCALE, whatever
\* time has passed before.
C26_PausedTimeNotCredited ==
    [][last_time' # last_time =>
        sim_days' = IF paused THEN sim_days
                    ELSE RAdd(sim_days, RMul(R(last_time' - last_time), TIME_SCALE))]_vars

\* two seconds of wall time, one of them paused: the clock shows the days of
\* one second
C26_Witness ==
    /\ ~paused
    /\ last_time = 2
    /\ TIME_SCALE = R(TIME_SCALE_INIT)
    /\ sim_days = R(TIME_SCALE_INIT)

\* the view: pan and zoom
View == << view_offset_x, view_offset_y, GLOBAL_SCALE >>

\* the step is a key handler's: it changes a flag, the speed or the view
HandlerStep ==
    \/ paused' # paused
    \/ TIME_SCALE' # TIME_SCALE
    \/ View' # View
    \/ SHOW_ORBITS' # SHOW_ORBITS
    \/ SHOW_LABELS_CH' # SHOW_LABELS_CH
    \/ SHOW_TRAILS' # SHOW_TRAILS

\* C27: no key handler changes sim_days; toggle_pause changes only paused and
\* the speed keys only TIME_SCALE, neither the view.
C27_HandlersLeaveClock ==
    [][/\ HandlerStep => sim_days' = sim_days /\ last_time' = last_time
       /\ paused' # paused =>
             UNCHANGED << TIME_SCALE, View, SHOW_ORBITS, SHOW_LABELS_CH, SHOW_TRAILS >>
       /\ TIME_SCALE' # TIME_SCALE =>
             UNCHANGED << paused, View, SHOW_ORBITS, SHOW_LABELS_CH, SHOW_TRAILS >>]_vars

\* the clock has run, and then a speed key, the pause key, a view key and a
\* toggle have been pressed
C27_Witness ==
    /\ sim_days = R(TIME_SCALE_INIT)
    /\ paused
    /\ TIME_SCALE # R(TIME_SCALE_INIT)
    /\ View # DEFAULT_VIEW
    /\ ~SHOW_ORBITS

\* the comet is in active_comets
CometActive == comet # NoComet

\* the point is outside the bounds Comet.update tests
OutOfBounds(x, y) ==
    RLess(R(SCREEN_WIDTH), RAbs(x)) \/ RLess(R(SCREEN_HEIGHT), RAbs(y))

DrawnAt(n) ==
    world_to_screen(curr[n][1], curr[n][2], view_offset_x, view_offset_y,
                    GLOBAL_SCALE)

=============================================================================
